---- MODULE Spec2Model ----
(***************************************************************************)
(* Model of the "Ask Lenny" chat endpoint (src/admin/api/chat.py): the     *)
(* retrieval helpers, the context assembler, the source formatter and the  *)
(* streaming request handler do_POST.                                      *)
(*                                                                         *)
(* Representation of Python values:                                        *)
(*   - a str is a sequence of tokens (TLA+ strings); a literal of the      *)
(*     source is one token, data text is one token per character, and      *)
(*     len(), slicing and strip() work on tokens;                          *)
(*   - a dict is a record with a field "has" (the keys that are present)   *)
(*     and a field "null" (the present keys whose value is None);          *)
(*   - a similarity score in [0,1] is an integer in 0..100;                *)
(*   - a value that may be None is a record [none, v].                     *)
(***************************************************************************)
EXTENDS Integers, Sequences, FiniteSets, TLC

\* ------------------------------------------------------------------------
\* Bounds of the model
\* ------------------------------------------------------------------------
MaxChunks == 2          \* chunks the model stream delivers at most

\* ------------------------------------------------------------------------
\* Program constants
\* ------------------------------------------------------------------------
EMBEDDING_MAX_CHARS == 30000
SOURCES_APP_LIMIT == 8
SOURCES_KB_LIMIT == 2
SOURCES_LIMIT == 8
CONTEXT_ACTIONS_LIMIT == 20
CONTEXT_COMPONENTS_LIMIT == 8
CONTEXT_PAGES_LIMIT == 5
CONTEXT_KB_LIMIT == 2
ACTION_DESC_CHARS == 400
COMPONENT_DESC_CHARS == 300
PAGE_DESC_CHARS == 200
KB_CONTENT_CHARS == 400
SOURCE_DESC_CHARS == 150
HISTORY_LIMIT == 6

SYSTEM_PROMPT == <<"You are Lenny, an internal AccuLynx assistant ...">>
NO_DOCS == <<"No relevant documentation found.">>

\* ------------------------------------------------------------------------
\* Python primitives
\* ------------------------------------------------------------------------
Min(a, b) == IF a <= b THEN a ELSE b
Max(a, b) == IF a >= b THEN a ELSE b

\* s[:n]
Prefix(s, n) == SubSeq(s, 1, Min(n, Len(s)))

\* s[-n:]
Suffix(s, n) == SubSeq(s, Max(1, Len(s) - n + 1), Len(s))

Whitespace == {" ", "\n", "\t"}

RECURSIVE LStrip(_)
LStrip(s) == IF s # <<>> /\ Head(s) \in Whitespace THEN LStrip(Tail(s)) ELSE s

RECURSIVE RStrip(_)
RStrip(s) ==
    IF s # <<>> /\ s[Len(s)] \in Whitespace
    THEN RStrip(SubSeq(s, 1, Len(s) - 1))
    ELSE s

\* str.strip()
Strip(s) == RStrip(LStrip(s))

\* str.replace("\n", " ")
ReplaceNewlines(s) == [i \in 1..Len(s) |-> IF s[i] = "\n" THEN " " ELSE s[i]]

\* sep.join(parts)
RECURSIVE Join(_, _)
Join(sep, parts) ==
    IF parts = <<>> THEN <<>>
    ELSE IF Len(parts) = 1 THEN parts[1]
    ELSE parts[1] \o sep \o Join(sep, Tail(parts))

\* d.get(k, default) for a text-valued key
Get(d, k, default) == IF k \in d.has THEN d[k] ELSE default

\* (d.get(k, "") or "")
GetOrEmpty(d, k) == IF k \in d.has /\ k \notin d.null THEN d[k] ELSE <<>>

\* d.get("similarity", 0): a number, or None when the key holds null
GetSimilarity(d) ==
    IF "similarity" \notin d.has THEN [none |-> FALSE, v |-> 0]
    ELSE IF "similarity" \in d.null THEN [none |-> TRUE, v |-> 0]
    ELSE [none |-> FALSE, v |-> d.similarity]

\* Outcome of a call that either returns a value or raises
Returned(v) == [raised |-> FALSE, msg |-> <<>>, value |-> v]
Raised(m, v) == [raised |-> TRUE, msg |-> m, value |-> v]

ATTR_GET == <<"object has no attribute 'get'">>
ATTR_STRIP == <<"'list' object has no attribute 'strip'">>
NOT_SUBSCRIPTABLE == <<"object is not subscriptable">>
NOT_COMPARABLE == <<"'<' not supported between instances">>

\* ------------------------------------------------------------------------
\* format_sources (chat.py 199-225)
\* ------------------------------------------------------------------------

\* The citation built from one app result (chat.py 204-212)
AppCitation(r) ==
    [ id |-> Get(r, "id", <<>>),
      content_type |-> Get(r, "content_type", <<>>),
      title |-> Get(r, "title", <<>>),
      description |-> Prefix(GetOrEmpty(r, "description"), SOURCE_DESC_CHARS),
      url_or_path |-> Get(r, "url_or_path", <<>>),
      keys |-> {"id", "content_type", "title", "description", "url_or_path",
                "screenshot_url", "similarity"},
      screenshot_url |-> IF "screenshot_url" \in r.has /\ "screenshot_url" \notin r.null
                         THEN [none |-> FALSE, v |-> r.screenshot_url]
                         ELSE [none |-> TRUE, v |-> <<>>],
      similarity |-> GetSimilarity(r) ]

\* The citation built from one KB result (chat.py 215-222)
KbCitation(kb) ==
    [ id |-> IF "chunk_id" \in kb.has THEN kb.chunk_id ELSE Get(kb, "id", <<>>),
      content_type |-> <<"article">>,
      title |-> Get(kb, "title", <<"Knowledge Base Article">>),
      description |-> Prefix(GetOrEmpty(kb, "content"), SOURCE_DESC_CHARS),
      url_or_path |-> Get(kb, "source_url", <<>>),
      keys |-> {"id", "content_type", "title", "description", "url_or_path",
                "similarity"},
      screenshot_url |-> [none |-> TRUE, v |-> <<>>],
      similarity |-> GetSimilarity(kb) ]

\* Insert x into the descending list s behind every element that is not
\* smaller: equal keys keep their order of insertion.
RECURSIVE InsertDesc(_, _)
InsertDesc(x, s) ==
    IF s = <<>> THEN <<x>>
    ELSE IF Head(s).similarity.v >= x.similarity.v
         THEN <<Head(s)>> \o InsertDesc(x, Tail(s))
         ELSE <<x>> \o s

\* list.sort(key=similarity, reverse=True) on comparable keys: stable
RECURSIVE SortDesc(_)
SortDesc(s) ==
    IF s = <<>> THEN <<>>
    ELSE InsertDesc(s[Len(s)], SortDesc(SubSeq(s, 1, Len(s) - 1)))

\* The sort compares keys as soon as there are two elements, and a None key
\* cannot be compared (TypeError).
SortRaises(s) == Len(s) >= 2 /\ \E i \in 1..Len(s) : s[i].similarity.none

\* Faulty variant for C14: the limits of 8 and 2 rows are applied after the
\* sort only
format_sources_SortThenCut(app_results, kb_results) ==
    LET sources == [i \in 1..Len(app_results) |-> AppCitation(app_results[i])]
                   \o [i \in 1..Len(kb_results) |-> KbCitation(kb_results[i])]
    IN  Returned(Prefix(SortDesc(sources), SOURCES_LIMIT))

\* Faulty variant for C13: sorted ascending and then reversed, which turns
\* the order of equal similarities around
format_sources_TiesReversed(app_results, kb_results) ==
    LET apps == Prefix(app_results, SOURCES_APP_LIMIT)
        kbs == Prefix(kb_results, SOURCES_KB_LIMIT)
        sources == [i \in 1..Len(apps) |-> AppCitation(apps[i])]
                   \o [i \in 1..Len(kbs) |-> KbCitation(kbs[i])]
        reversed == [i \in 1..Len(sources) |-> sources[Len(sources) + 1 - i]]
    IN  Returned(Prefix(SortDesc(reversed), SOURCES_LIMIT))

format_sources(app_results, kb_results) ==
    LET apps == Prefix(app_results, SOURCES_APP_LIMIT)
        kbs == Prefix(kb_results, SOURCES_KB_LIMIT)
    IN  IF \E i \in 1..Len(apps) : ~apps[i].dict THEN Raised(ATTR_GET, <<>>)
        ELSE IF \E i \in 1..Len(kbs) : ~kbs[i].dict THEN Raised(ATTR_GET, <<>>)
        ELSE LET sources == [i \in 1..Len(apps) |-> AppCitation(apps[i])]
                            \o [i \in 1..Len(kbs) |-> KbCitation(kbs[i])]
             IN  IF SortRaises(sources) THEN Raised(NOT_COMPARABLE, <<>>)
                 ELSE Returned(Prefix(SortDesc(sources), SOURCES_LIMIT))

\* ------------------------------------------------------------------------
\* build_context (chat.py 140-196)
\* ------------------------------------------------------------------------

\* [r for r in app_results if r.get("content_type") == ct]
OfType(app_results, ct) ==
    SelectSeq(app_results, LAMBDA r : "content_type" \in r.has /\ r.content_type = <<ct>>)

\* r.get("metadata") or {}
MetadataOf(r) ==
    IF "metadata" \in r.has /\ "metadata" \notin r.null /\ (~r.metadata.dict \/ r.metadata.has # {})
    THEN r.metadata
    ELSE [dict |-> TRUE, has |-> {}]

\* Faulty variant for C18: navigates_to is looked at before opens_component
ActionEntry_NavigatesFirst(action) ==
    LET title == Get(action, "title", <<>>)
        description == Prefix(GetOrEmpty(action, "description"), ACTION_DESC_CHARS)
        url == Get(action, "url_or_path", <<>>)
        metadata == MetadataOf(action)
        elem_type == Get(metadata, "element_type", <<"button">>)
        page_title == Get(metadata, "page_title", <<>>)
        opens == Get(metadata, "opens_component", <<>>)
        navigates == Get(metadata, "navigates_to", <<>>)
        location == IF page_title # <<>> THEN <<"on page '">> \o page_title \o <<"'">>
                    ELSE <<"at ">> \o url
        result_info == IF navigates # <<>> THEN <<" -> Navigates to: ">> \o navigates
                       ELSE IF opens # <<>> THEN <<" -> Opens: ">> \o opens
                       ELSE <<>>
    IN  <<"* ">> \o elem_type \o <<" '">> \o title \o <<"' ">> \o location \o result_info
        \o <<"\n  ">> \o description

\* One entry of the actions section (chat.py 151-167)
ActionEntry(action) ==
    LET title == Get(action, "title", <<>>)
        description == Prefix(GetOrEmpty(action, "description"), ACTION_DESC_CHARS)
        url == Get(action, "url_or_path", <<>>)
        metadata == MetadataOf(action)
        elem_type == Get(metadata, "element_type", <<"button">>)
        page_title == Get(metadata, "page_title", <<>>)
        opens == Get(metadata, "opens_component", <<>>)
        navigates == Get(metadata, "navigates_to", <<>>)
        location == IF page_title # <<>> THEN <<"on page '">> \o page_title \o <<"'">>
                    ELSE <<"at ">> \o url
        result_info == IF opens # <<>> THEN <<" -> Opens: ">> \o opens
                       ELSE IF navigates # <<>> THEN <<" -> Navigates to: ">> \o navigates
                       ELSE <<>>
    IN  <<"* ">> \o elem_type \o <<" '">> \o title \o <<"' ">> \o location \o result_info
        \o <<"\n  ">> \o description

\* One entry of the components section (chat.py 172-179)
ComponentEntry(comp) ==
    LET title == Get(comp, "title", <<>>)
        description == Prefix(GetOrEmpty(comp, "description"), COMPONENT_DESC_CHARS)
        metadata == MetadataOf(comp)
        comp_type == Get(metadata, "component_type", <<"component">>)
        page_title == Get(metadata, "page_title", <<>>)
        location == IF page_title # <<>> THEN <<"on '">> \o page_title \o <<"'">> ELSE <<>>
    IN  <<"* ">> \o comp_type \o <<" '">> \o title \o <<"' ">> \o location
        \o <<"\n  ">> \o description

\* Faulty variant for C17: the page description is cut like that of an action
PageEntry_ActionLimit(page) ==
    LET title == Get(page, "title", <<>>)
        description == Prefix(GetOrEmpty(page, "description"), ACTION_DESC_CHARS)
        url == Get(page, "url_or_path", <<>>)
    IN  <<"* Page '">> \o title \o <<"' at ">> \o url \o <<"\n  ">> \o description

\* One entry of the pages section (chat.py 184-187)
PageEntry(page) ==
    LET title == Get(page, "title", <<>>)
        description == Prefix(GetOrEmpty(page, "description"), PAGE_DESC_CHARS)
        url == Get(page, "url_or_path", <<>>)
    IN  <<"* Page '">> \o title \o <<"' at ">> \o url \o <<"\n  ">> \o description

\* One entry of the KB section (chat.py 192-194)
KbEntry(kb) ==
    LET title == Get(kb, "title", <<"Help Article">>)
        content == Prefix(GetOrEmpty(kb, "content"), KB_CONTENT_CHARS)
    IN  <<"* ">> \o title \o <<": ">> \o content

ACTIONS_HEADER == <<"=== UI ACTIONS (where users can do things) ===">>
COMPONENTS_HEADER == <<"\n=== UI COMPONENTS (modals, drawers, panels) ===">>
PAGES_HEADER == <<"\n=== PAGES (main screens) ===">>
KB_HEADER == <<"\n=== Related KB Context ===">>

\* A header followed by the entries of its section; nothing without entries
Section(header, entries) == IF entries = <<>> THEN <<>> ELSE <<header>> \o entries

\* Faulty variant for C16: the sections follow the order of the partition
\* (pages, components, actions)
context_parts_PagesFirst(app_results, kb_results) ==
    LET pages == Prefix(OfType(app_results, "page"), CONTEXT_PAGES_LIMIT)
        components == Prefix(OfType(app_results, "component"), CONTEXT_COMPONENTS_LIMIT)
        actions == Prefix(OfType(app_results, "action"), CONTEXT_ACTIONS_LIMIT)
        kbs == Prefix(kb_results, CONTEXT_KB_LIMIT)
    IN  Section(PAGES_HEADER, [i \in 1..Len(pages) |-> PageEntry(pages[i])])
        \o Section(COMPONENTS_HEADER, [i \in 1..Len(components) |-> ComponentEntry(components[i])])
        \o Section(ACTIONS_HEADER, [i \in 1..Len(actions) |-> ActionEntry(actions[i])])
        \o Section(KB_HEADER, [i \in 1..Len(kbs) |-> KbEntry(kbs[i])])

\* The list context_parts at line 196
context_parts(app_results, kb_results) ==
    LET pages == Prefix(OfType(app_results, "page"), CONTEXT_PAGES_LIMIT)
        components == Prefix(OfType(app_results, "component"), CONTEXT_COMPONENTS_LIMIT)
        actions == Prefix(OfType(app_results, "action"), CONTEXT_ACTIONS_LIMIT)
        kbs == Prefix(kb_results, CONTEXT_KB_LIMIT)
    IN  Section(ACTIONS_HEADER, [i \in 1..Len(actions) |-> ActionEntry(actions[i])])
        \o Section(COMPONENTS_HEADER, [i \in 1..Len(components) |-> ComponentEntry(components[i])])
        \o Section(PAGES_HEADER, [i \in 1..Len(pages) |-> PageEntry(pages[i])])
        \o Section(KB_HEADER, [i \in 1..Len(kbs) |-> KbEntry(kbs[i])])

\* The attribute errors build_context runs into: a row that is no dict, or a
\* metadata value that is neither a dict nor falsy
BuildContextRaises(app_results, kb_results) ==
    \/ \E i \in 1..Len(app_results) : ~app_results[i].dict
    \/ \E i \in 1..Min(CONTEXT_ACTIONS_LIMIT, Len(OfType(app_results, "action"))) :
           ~MetadataOf(OfType(app_results, "action")[i]).dict
    \/ \E i \in 1..Min(CONTEXT_COMPONENTS_LIMIT, Len(OfType(app_results, "component"))) :
           ~MetadataOf(OfType(app_results, "component")[i]).dict
    \/ \E i \in 1..Min(CONTEXT_KB_LIMIT, Len(kb_results)) : ~kb_results[i].dict

\* Faulty variant for C15: without sections the joined string is returned
build_context_EmptyString(app_results, kb_results) ==
    IF BuildContextRaises(app_results, kb_results) THEN Raised(ATTR_GET, <<>>)
    ELSE Returned(Join(<<"\n\n">>, context_parts(app_results, kb_results)))

build_context(app_results, kb_results) ==
    IF BuildContextRaises(app_results, kb_results) THEN Raised(ATTR_GET, <<>>)
    ELSE LET parts == context_parts(app_results, kb_results)
         IN  Returned(IF parts # <<>> THEN Join(<<"\n\n">>, parts) ELSE NO_DOCS)

\* ------------------------------------------------------------------------
\* Credentials resolved at import (chat.py 14-19)
\* ------------------------------------------------------------------------
EnvVars == {"SUPABASE_URL", "VITE_SUPABASE_URL", "SUPABASE_SERVICE_ROLE_KEY",
            "VITE_SUPABASE_SERVICE_ROLE_KEY", "VITE_SUPABASE_ANON_KEY", "OPENAI_API_KEY"}

\* a or b
Or(a, b) == IF a # "" THEN a ELSE b

\* An environment maps each variable to its value, "" when it is unset.
ResolveSupabaseUrl(env) == Or(env["SUPABASE_URL"], env["VITE_SUPABASE_URL"])

ResolveSupabaseKey(env) ==
    LET key == Or(env["SUPABASE_SERVICE_ROLE_KEY"], env["VITE_SUPABASE_SERVICE_ROLE_KEY"])
    IN  IF key = "" THEN env["VITE_SUPABASE_ANON_KEY"] ELSE key

ResolveOpenaiKey(env) == env["OPENAI_API_KEY"]

\* ------------------------------------------------------------------------
\* Health responses (health.py 11-34, chat.py 243-259)
\* ------------------------------------------------------------------------

\* json.dumps(bool(x))
JsonBool(x) == IF x # "" THEN "true" ELSE "false"

\* Faulty variant for C23: the source field shows the value found
health_do_GET_ShowsValue(env) ==
    LET supabase_url == Or(env["SUPABASE_URL"], env["VITE_SUPABASE_URL"])
        supabase_key == Or(Or(env["SUPABASE_SERVICE_ROLE_KEY"],
                              env["VITE_SUPABASE_SERVICE_ROLE_KEY"]),
                           env["VITE_SUPABASE_ANON_KEY"])
        openai_key == env["OPENAI_API_KEY"]
    IN  [code |-> 200,
         body |-> [status |-> "ok",
                   message |-> "Vercel Python function is working!",
                   SUPABASE_URL |-> JsonBool(supabase_url),
                   SUPABASE_URL_source |->
                       IF supabase_url # "" THEN supabase_url ELSE "NOT SET",
                   SUPABASE_KEY |-> JsonBool(supabase_key),
                   SUPABASE_KEY_source |->
                       IF env["SUPABASE_SERVICE_ROLE_KEY"] # ""
                       THEN "SUPABASE_SERVICE_ROLE_KEY"
                       ELSE IF env["VITE_SUPABASE_ANON_KEY"] # ""
                            THEN "VITE_SUPABASE_ANON_KEY" ELSE "NOT SET",
                   OPENAI_API_KEY |-> JsonBool(openai_key)]]

\* health.py do_GET: the status and the fields of the JSON body, read from
\* the environment at the time of the request
health_do_GET(env) ==
    LET supabase_url == Or(env["SUPABASE_URL"], env["VITE_SUPABASE_URL"])
        supabase_key == Or(Or(env["SUPABASE_SERVICE_ROLE_KEY"],
                              env["VITE_SUPABASE_SERVICE_ROLE_KEY"]),
                           env["VITE_SUPABASE_ANON_KEY"])
        openai_key == env["OPENAI_API_KEY"]
    IN  [code |-> 200,
         body |-> [status |-> "ok",
                   message |-> "Vercel Python function is working!",
                   SUPABASE_URL |-> JsonBool(supabase_url),
                   SUPABASE_URL_source |->
                       IF env["SUPABASE_URL"] # "" THEN "SUPABASE_URL"
                       ELSE IF env["VITE_SUPABASE_URL"] # ""
                            THEN "VITE_SUPABASE_URL" ELSE "NOT SET",
                   SUPABASE_KEY |-> JsonBool(supabase_key),
                   SUPABASE_KEY_source |->
                       IF env["SUPABASE_SERVICE_ROLE_KEY"] # ""
                       THEN "SUPABASE_SERVICE_ROLE_KEY"
                       ELSE IF env["VITE_SUPABASE_ANON_KEY"] # ""
                            THEN "VITE_SUPABASE_ANON_KEY" ELSE "NOT SET",
                   OPENAI_API_KEY |-> JsonBool(openai_key)]]

\* chat.py do_GET: the same for the module constants set at import
chat_do_GET(supabase_url, supabase_key, openai_key) ==
    [code |-> 200,
     body |-> [status |-> "ok",
               service |-> "Lenny Chat API",
               SUPABASE_URL |-> JsonBool(supabase_url),
               SUPABASE_SERVICE_ROLE_KEY |-> JsonBool(supabase_key),
               OPENAI_API_KEY |-> JsonBool(openai_key)]]

\* ------------------------------------------------------------------------
\* generate_embedding, search_app_content, search_kb_content (chat.py 64-137)
\* ------------------------------------------------------------------------

\* Faulty variant for C4: the validation tests for None only
Truthy_NoneOnly(x) == x.t # "none"

\* Faulty variant for C25: a string of whitespace counts as empty
Truthy_NotBlank(x) ==
    CASE x.t = "none" -> FALSE
      [] x.t = "int" -> x.s # <<"0">>
      [] x.t = "str" -> Strip(x.s) # <<>>
      [] OTHER -> x.s # <<>>

\* Truth value of a request value: None, 0, "" and [] are falsy
Truthy(x) ==
    CASE x.t = "none" -> FALSE
      [] x.t = "int" -> x.s # <<"0">>
      [] OTHER -> x.s # <<>>

None == [none |-> TRUE, v |-> <<>>]
Some(v) == [none |-> FALSE, v |-> v]

\* The vector the embedding model returns
VECTOR == <<1, 2, 3>>

\* Faulty variant for C11: a failed embedding call is issued a second time
generate_embedding_Retry(text, embOk) ==
    LET call == [op |-> "embed", ok |-> embOk, output |-> <<>>, error |-> <<>>,
                 input |-> IF text.t = "str"
                           THEN Prefix(Strip(ReplaceNewlines(text.s)), EMBEDDING_MAX_CHARS)
                           ELSE <<>>]
    IN  IF ~Truthy(text) THEN [raised |-> FALSE, msg |-> <<>>, value |-> None, sent |-> <<>>]
        ELSE IF text.t # "str"
             THEN [raised |-> TRUE, msg |-> ATTR_STRIP, value |-> None, sent |-> <<>>]
        ELSE IF Strip(text.s) = <<>>
             THEN [raised |-> FALSE, msg |-> <<>>, value |-> None, sent |-> <<>>]
        ELSE [raised |-> FALSE, msg |-> <<>>,
              value |-> IF embOk THEN Some(VECTOR) ELSE None,
              sent |-> IF embOk THEN <<call>> ELSE <<call, call>>]

\* Faulty variant for C20: the remote call stands outside the try
generate_embedding_Unguarded(text, embOk) ==
    IF ~Truthy(text) THEN [raised |-> FALSE, msg |-> <<>>, value |-> None, sent |-> <<>>]
    ELSE IF text.t # "str"
         THEN [raised |-> TRUE, msg |-> ATTR_STRIP, value |-> None, sent |-> <<>>]
    ELSE IF Strip(text.s) = <<>>
         THEN [raised |-> FALSE, msg |-> <<>>, value |-> None, sent |-> <<>>]
    ELSE LET input == Prefix(Strip(ReplaceNewlines(text.s)), EMBEDDING_MAX_CHARS)
         IN  [raised |-> ~embOk, msg |-> IF embOk THEN <<>> ELSE <<"Connection error.">>,
              value |-> IF embOk THEN Some(VECTOR) ELSE None,
              sent |-> <<[op |-> "embed", ok |-> embOk, input |-> input, output |-> <<>>,
                            error |-> <<>>]>>]

\* embOk: whether the remote embedding call succeeds when it is made.
\* The result records the value returned, whether the call raised, and the
\* text submitted to the remote model ("sent" is empty when no call is made).
generate_embedding(text, embOk) ==
    IF ~Truthy(text) THEN [raised |-> FALSE, msg |-> <<>>, value |-> None, sent |-> <<>>]
    ELSE IF text.t # "str"
         THEN [raised |-> TRUE, msg |-> ATTR_STRIP, value |-> None, sent |-> <<>>]
    ELSE IF Strip(text.s) = <<>>
         THEN [raised |-> FALSE, msg |-> <<>>, value |-> None, sent |-> <<>>]
    ELSE LET input == Prefix(Strip(ReplaceNewlines(text.s)), EMBEDDING_MAX_CHARS)
         IN  [raised |-> FALSE, msg |-> <<>>,
              value |-> IF embOk THEN Some(VECTOR) ELSE None,
              sent |-> <<[op |-> "embed", ok |-> embOk, input |-> input, output |-> <<>>,
                            error |-> <<>>]>>]

\* What a store query does: it raises, or returns data that is None or rows.
\* A remote call is recorded as [op, ok, input, output]: its name, whether it
\* succeeded, the text submitted, the rows returned and the error message.
StoreFails == [fail |-> TRUE, none |-> FALSE, data |-> <<>>]
StoreNoData == [fail |-> FALSE, none |-> TRUE, data |-> <<>>]
StoreRows(rows) == [fail |-> FALSE, none |-> FALSE, data |-> rows]

\* Faulty variant for C6: the store query of search_app_content stands outside the try
search_app_content_Unguarded(query, embOk, store) ==
    LET emb == generate_embedding(query, embOk)
    IN  IF query.t \in {"none", "int"}
        THEN [raised |-> TRUE, msg |-> NOT_SUBSCRIPTABLE, value |-> <<>>, calls |-> <<>>]
        ELSE IF emb.raised THEN [raised |-> TRUE, msg |-> emb.msg, value |-> <<>>, calls |-> emb.sent]
        ELSE IF emb.value.none \/ emb.value.v = <<>>
             THEN [raised |-> FALSE, msg |-> <<>>, value |-> <<>>, calls |-> emb.sent]
        ELSE [raised |-> store.fail, msg |-> <<"store error">>,
              value |-> IF store.fail \/ store.none THEN <<>> ELSE store.data,
              calls |-> emb.sent \o <<[op |-> "search_app_content", ok |-> ~store.fail,
                                       input |-> <<>>, output |-> store.data, error |-> <<>>]>>]

\* embOk and store are the outcomes of the remote calls, should they be made.
\* "calls" lists the remote calls made, in order. Line 94 slices the query
\* for the log before anything else.
search_app_content(query, embOk, store) ==
    LET emb == generate_embedding(query, embOk)
    IN  IF query.t \in {"none", "int"}
        THEN [raised |-> TRUE, msg |-> NOT_SUBSCRIPTABLE, value |-> <<>>, calls |-> <<>>]
        ELSE IF emb.raised THEN [raised |-> TRUE, msg |-> emb.msg, value |-> <<>>, calls |-> emb.sent]
        ELSE IF emb.value.none \/ emb.value.v = <<>>
             THEN [raised |-> FALSE, msg |-> <<>>, value |-> <<>>, calls |-> emb.sent]
        ELSE [raised |-> FALSE, msg |-> <<>>,
              value |-> IF store.fail \/ store.none THEN <<>> ELSE store.data,
              calls |-> emb.sent \o <<[op |-> "search_app_content", ok |-> ~store.fail,
                                       input |-> <<>>, output |-> store.data, error |-> <<>>]>>]

\* Faulty variant for C21: the store is queried although the embedding is absent
search_kb_content_NoEarlyReturn(query, embOk, store) ==
    LET emb == generate_embedding(query, embOk)
    IN  IF emb.raised THEN [raised |-> TRUE, msg |-> emb.msg, value |-> <<>>, calls |-> emb.sent]
        ELSE [raised |-> FALSE, msg |-> <<>>,
              value |-> IF store.fail \/ store.none THEN <<>> ELSE store.data,
              calls |-> emb.sent \o <<[op |-> "search_similar_content", ok |-> ~store.fail,
                                       input |-> <<>>, output |-> store.data, error |-> <<>>]>>]

search_kb_content(query, embOk, store) ==
    LET emb == generate_embedding(query, embOk)
    IN  IF emb.raised THEN [raised |-> TRUE, msg |-> emb.msg, value |-> <<>>, calls |-> emb.sent]
        ELSE IF emb.value.none \/ emb.value.v = <<>>
             THEN [raised |-> FALSE, msg |-> <<>>, value |-> <<>>, calls |-> emb.sent]
        ELSE [raised |-> FALSE, msg |-> <<>>,
              value |-> IF store.fail \/ store.none THEN <<>> ELSE store.data,
              calls |-> emb.sent \o <<[op |-> "search_similar_content", ok |-> ~store.fail,
                                       input |-> <<>>, output |-> store.data, error |-> <<>>]>>]

\* ------------------------------------------------------------------------
\* Data the environment supplies: store rows, request bodies, model output
\* ------------------------------------------------------------------------
NoMeta == [dict |-> TRUE, has |-> {}, element_type |-> <<>>, page_title |-> <<>>,
           opens_component |-> <<>>, navigates_to |-> <<>>, component_type |-> <<>>]

\* A row with no key at all
EmptyRow ==
    [dict |-> TRUE, has |-> {}, null |-> {}, id |-> <<>>, content_type |-> <<>>,
     title |-> <<>>, description |-> <<>>, url_or_path |-> <<>>, screenshot_url |-> <<>>,
     similarity |-> 0, metadata |-> NoMeta, chunk_id |-> <<>>, content |-> <<>>,
     source_url |-> <<>>]

AppKeys == {"id", "content_type", "title", "description", "url_or_path", "screenshot_url",
            "similarity", "metadata"}

AppRow(id, ct, title, sim, meta) ==
    [EmptyRow EXCEPT !.has = AppKeys, !.null = {"screenshot_url"}, !.id = <<id>>,
                     !.content_type = <<ct>>, !.title = <<title>>,
                     !.description = <<"d", "e", "s", "c">>, !.url_or_path = <<"/", id>>,
                     !.similarity = sim, !.metadata = meta]

KbRow(id, title, sim) ==
    [EmptyRow EXCEPT !.has = {"chunk_id", "title", "content", "source_url", "similarity"},
                     !.chunk_id = <<id>>, !.title = <<title>>,
                     !.content = <<"k", "b">>, !.source_url = <<"kb/", id>>,
                     !.similarity = sim]

PaymentMeta ==
    [NoMeta EXCEPT !.has = {"element_type", "page_title", "opens_component"},
                   !.element_type = <<"button">>, !.page_title = <<"Job Overview">>,
                   !.opens_component = <<"Payment Modal">>]

\* metadata holding a string instead of a mapping
BadMeta == [NoMeta EXCEPT !.dict = FALSE]

TakePayment == AppRow("a1", "action", "Take Payment", 90, PaymentMeta)
JobPage == AppRow("p1", "page", "Job Overview", 70, NoMeta)
NullSimRow == [AppRow("n1", "component", "Drawer", 0, NoMeta) EXCEPT !.null = {"similarity"}]
BadMetaRow == AppRow("m1", "action", "Export", 60, BadMeta)
NotADict == [EmptyRow EXCEPT !.dict = FALSE]
PaymentsArticle == KbRow("k1", "Payments", 80)

AppStoreOutcomes ==
    { StoreFails, StoreNoData,
      StoreRows(<<TakePayment, JobPage>>),
      StoreRows(<<NullSimRow, JobPage>>),
      StoreRows(<<BadMetaRow>>),
      StoreRows(<<NotADict>>) }

KbStoreOutcomes == { StoreFails, StoreRows(<<>>), StoreRows(<<PaymentsArticle>>) }

\* Request values: t is the JSON type, s the characters of a string, the
\* digits of a number or the elements of a list
Str(s) == [t |-> "str", s |-> s]
Null == [t |-> "none", s |-> <<>>]
Number(d) == [t |-> "int", s |-> <<d>>]
List(s) == [t |-> "list", s |-> s]

Turn(role, content) ==
    [dict |-> TRUE, has |-> {"role", "content"}, role |-> <<role>>, content |-> <<content>>]
BareTurn(content) ==
    [dict |-> TRUE, has |-> {"content"}, role |-> <<>>, content |-> <<content>>]
NotATurn == [dict |-> FALSE, has |-> {}, role |-> <<>>, content |-> <<>>]

Turns(ts) == [t |-> "list", turns |-> ts]
NullHistory == [t |-> "none", turns |-> <<>>]

\* A request: whether Content-Length is a number, whether the body is JSON,
\* whether the JSON value is an object, and the object's two fields
Body(has, msg, hist) ==
    [clen_ok |-> TRUE, json_ok |-> TRUE, object |-> TRUE, has |-> has,
     message |-> msg, history |-> hist]

Question == Str(<<"h", "i", "\n", "?">>)

SevenTurns ==
    Turns(<<Turn("user", "q1"), Turn("assistant", "a1"), Turn("user", "q2"),
            Turn("assistant", "a2"), Turn("user", "q3"), Turn("assistant", "a3"),
            BareTurn("q4")>>)

Requests ==
    { [Body({}, Null, NullHistory) EXCEPT !.clen_ok = FALSE],
      [Body({}, Null, NullHistory) EXCEPT !.json_ok = FALSE],
      [Body({}, Null, NullHistory) EXCEPT !.object = FALSE],
      Body({}, Null, NullHistory),
      Body({"message"}, Str(<<>>), NullHistory),
      Body({"message"}, Null, NullHistory),
      Body({"message"}, Number("5"), NullHistory),
      Body({"message"}, List(<<>>), NullHistory),
      Body({"message"}, List(<<"hi">>), NullHistory),
      Body({"message"}, Str(<<" ", "\n">>), NullHistory),
      Body({"message"}, Question, NullHistory),
      Body({"message", "history"}, Question, Turns(<<Turn("user", "q1")>>)),
      Body({"message", "history"}, Question, SevenTurns),
      Body({"message", "history"}, Question, NullHistory),
      Body({"message", "history"}, Question, Turns(<<NotATurn>>)) }

\* delta.content of a chunk of the model stream: a fragment, "" or None
Deltas == { Some(<<"a">>), Some(<<" ", "b">>), Some(<<>>), None }

ModelErrors == { <<"Connection error.">>, <<"Rate limit reached">> }

\* ------------------------------------------------------------------------
\* Request parsing and message assembly of do_POST (chat.py 292-329)
\* ------------------------------------------------------------------------

\* Lines 294-301: the values of message and history, or the exception raised
parse_request(req) ==
    IF ~req.clen_ok
    THEN [raised |-> TRUE, at |-> "content_length", msg |-> <<"invalid literal for int()">>,
          read |-> FALSE, message |-> Null, history |-> NullHistory]
    ELSE IF ~req.json_ok
    THEN [raised |-> TRUE, at |-> "json", msg |-> <<"Expecting value">>,
          read |-> TRUE, message |-> Null, history |-> NullHistory]
    ELSE IF ~req.object
    THEN [raised |-> TRUE, at |-> "body", msg |-> ATTR_GET,
          read |-> TRUE, message |-> Null, history |-> NullHistory]
    ELSE LET msg == IF "message" \in req.has THEN req.message ELSE Str(<<>>)
             hist == IF "history" \in req.has THEN req.history ELSE Turns(<<>>)
         IN  IF msg.t \in {"none", "int"}
             THEN [raised |-> TRUE, at |-> "message", msg |-> NOT_SUBSCRIPTABLE,
                   read |-> TRUE, message |-> msg, history |-> hist]
             ELSE [raised |-> FALSE, at |-> "", msg |-> <<>>,
                   read |-> TRUE, message |-> msg, history |-> hist]

CONTEXT_INTRO == <<"Here's what I found in the AccuLynx documentation:\n\n">>

\* Faulty variant for C24: a history that is no list of objects is taken as empty
build_messages_IgnoresBadHistory(context, hist, msg) ==
    LET recent == IF hist.t # "list" THEN <<>>
                  ELSE SelectSeq(Suffix(hist.turns, HISTORY_LIMIT), LAMBDA t : t.dict)
    IN  Returned(
           << [role |-> <<"system">>, content |-> SYSTEM_PROMPT],
              [role |-> <<"system">>, content |-> CONTEXT_INTRO \o context] >>
           \o [i \in 1..Len(recent) |->
                 [role |-> Get(recent[i], "role", <<"user">>),
                  content |-> Get(recent[i], "content", <<>>)]]
           \o << [role |-> <<"user">>, content |-> msg.s] >>)

\* Faulty variant for C19: the first six turns of the history are forwarded
build_messages_FirstSix(context, hist, msg) ==
    IF hist.t # "list" THEN Raised(NOT_SUBSCRIPTABLE, <<>>)
    ELSE LET recent == Prefix(hist.turns, HISTORY_LIMIT)
         IN  IF \E i \in 1..Len(recent) : ~recent[i].dict THEN Raised(ATTR_GET, <<>>)
             ELSE Returned(
                    << [role |-> <<"system">>, content |-> SYSTEM_PROMPT],
                       [role |-> <<"system">>, content |-> CONTEXT_INTRO \o context] >>
                    \o [i \in 1..Len(recent) |->
                          [role |-> Get(recent[i], "role", <<"user">>),
                           content |-> Get(recent[i], "content", <<>>)]]
                    \o << [role |-> <<"user">>, content |-> msg.s] >>)

\* Lines 321-329: the message list handed to the model
build_messages(context, hist, msg) ==
    IF hist.t # "list" THEN Raised(NOT_SUBSCRIPTABLE, <<>>)
    ELSE LET recent == Suffix(hist.turns, HISTORY_LIMIT)
         IN  IF \E i \in 1..Len(recent) : ~recent[i].dict THEN Raised(ATTR_GET, <<>>)
             ELSE Returned(
                    << [role |-> <<"system">>, content |-> SYSTEM_PROMPT],
                       [role |-> <<"system">>, content |-> CONTEXT_INTRO \o context] >>
                    \o [i \in 1..Len(recent) |->
                          [role |-> Get(recent[i], "role", <<"user">>),
                           content |-> Get(recent[i], "content", <<>>)]]
                    \o << [role |-> <<"user">>, content |-> msg.s] >>)

\* ------------------------------------------------------------------------
\* Stream events (chat.py 355-362)
\* ------------------------------------------------------------------------
SourcesEvent(srcs) == [type |-> "sources", sources |-> srcs, text |-> <<>>, message |-> <<>>]

\* Faulty variant for C8: the fragment is stripped before it is sent
ContentEvent_Stripped(text) ==
    [type |-> "content", sources |-> <<>>, text |-> Strip(text), message |-> <<>>]

ContentEvent(text) == [type |-> "content", sources |-> <<>>, text |-> text, message |-> <<>>]
ErrorEvent(msg) == [type |-> "error", sources |-> <<>>, text |-> <<>>, message |-> msg]
DoneEvent == [type |-> "done", sources |-> <<>>, text |-> <<>>, message |-> <<>>]

\* Faulty variant for C10: _send_event does not catch the failure of the write
send_event_Unguarded(payload, wfileOk) ==
    [payload |-> payload, attempted |-> TRUE, written |-> wfileOk, raised |-> ~wfileOk]

\* _send_event: one write of the payload is attempted; wfileOk tells whether
\* the write and the flush succeed.  A failure is caught and logged.
send_event(payload, wfileOk) ==
    [payload |-> payload, attempted |-> TRUE, written |-> wfileOk, raised |-> FALSE]

\* ------------------------------------------------------------------------
\* State of one request handled by do_POST (chat.py 269-353)
\* ------------------------------------------------------------------------
VARIABLES
    SUPABASE_URL,               \* module constants set at import
    SUPABASE_SERVICE_ROLE_KEY,
    OPENAI_API_KEY,
    pc,                         \* position of the handler in do_POST
    status,                     \* status line sent (0: none yet)
    response_type,              \* Content-Type header sent
    json_error,                 \* message of the JSON error body
    body_read,                  \* whether rfile.read has been called
    message,                    \* locals of do_POST
    history,
    app_results,
    kb_results,
    messages,
    exc,                        \* the exception caught at line 349
    chunks,                     \* chunks received from the model stream
    events,                     \* payloads handed to _send_event, in order
    writes,                     \* writes to wfile attempted by _send_event
    connected,                  \* whether the client still reads the stream
    trace,                      \* remote calls and events, in program order
    other,                      \* the frame of a second request, handled concurrently
    args,                       \* the arguments of a helper called on its own
    result,                     \* what that call returned or raised
    supabase_client,            \* _supabase_client of supabase_client.py (0: None)
    created,                    \* number of calls of create_client
    callers                     \* the callers of get_supabase_client

vars == <<SUPABASE_URL, SUPABASE_SERVICE_ROLE_KEY, OPENAI_API_KEY, pc, status,
          response_type, json_error, body_read, message, history, app_results,
          kb_results, messages, exc, chunks, events, writes, connected, trace,
          other, args, result, supabase_client, created, callers>>

credentials == <<SUPABASE_URL, SUPABASE_SERVICE_ROLE_KEY, OPENAI_API_KEY>>
response == <<status, response_type, json_error>>
locals == <<message, history, app_results, kb_results, messages>>
stream == <<events, writes, connected>>

clients == <<supabase_client, created, callers>>

\* What a step of the request at hand leaves alone
idle == <<other, args, result, clients>>

\* No second request, no helper called on its own
NoFrame == [pc |-> "none"]
NoArgs == [fn |-> "none"]
NoResult == [done |-> FALSE]

NoException == [at |-> "", msg |-> <<>>]

Envs == [EnvVars -> {"", "secret"}]

Init ==
    /\ \E env \in Envs :
          /\ SUPABASE_URL = ResolveSupabaseUrl(env)
          /\ SUPABASE_SERVICE_ROLE_KEY = ResolveSupabaseKey(env)
          /\ OPENAI_API_KEY = ResolveOpenaiKey(env)
    /\ pc = "entry"
    /\ status = 0
    /\ response_type = ""
    /\ json_error = ""
    /\ body_read = FALSE
    /\ message = Null
    /\ history = NullHistory
    /\ app_results = <<>>
    /\ kb_results = <<>>
    /\ messages = <<>>
    /\ exc = NoException
    /\ chunks = <<>>
    /\ events = <<>>
    /\ writes = <<>>
    /\ connected = TRUE
    /\ trace = <<>>
    /\ other = NoFrame
    /\ args = NoArgs
    /\ result = NoResult
    /\ supabase_client = 0
    /\ created = 0
    /\ callers = <<>>

\* The outcomes a write can have: it can succeed only while the client is
\* connected, and a failed write means the client is gone for good.
WriteOutcomes == IF connected THEN BOOLEAN ELSE {FALSE}

Call(op, ok) == [op |-> op, ok |-> ok, input |-> <<>>, output |-> <<>>, error |-> <<>>]
Failure(op, msg) == [op |-> op, ok |-> FALSE, input |-> <<>>, output |-> <<>>, error |-> msg]

\* get_supabase (48-53) and get_openai (56-61) raise without credentials
get_supabase_raises == SUPABASE_URL = "" \/ SUPABASE_SERVICE_ROLE_KEY = ""
get_openai_raises == OPENAI_API_KEY = ""

\* The exception handler of do_POST is entered (line 349)
Raise(at, msg) ==
    /\ pc' = "except"
    /\ exc' = [at |-> at, msg |-> msg]

\* self._send_event(...) at a place of do_POST that continues at next.
\* inTry: the call stands in the try block of do_POST.
Emit(payload, ok, next, inTry) ==
    LET r == send_event(payload, ok)
    IN  /\ events' = Append(events, r.payload)
        /\ writes' = IF r.attempted
                     THEN Append(writes, [event |-> r.payload, ok |-> r.written])
                     ELSE writes
        /\ connected' = (connected /\ (r.written \/ ~r.attempted))
        /\ trace' = Append(trace, Call(payload.type, r.written))
        /\ IF r.raised
           THEN /\ pc' = IF inTry THEN "except" ELSE "crashed"
                /\ exc' = [at |-> "send_event", msg |-> <<"Broken pipe">>]
           ELSE /\ pc' = next
                /\ UNCHANGED exc

\* Faulty variant for C3: the check of the content-store key is left out
config_error_NoKeyCheck(openai_key, supabase_url, supabase_key) ==
    IF openai_key = "" THEN "Server misconfigured: Missing OPENAI_API_KEY"
    ELSE IF supabase_url = "" THEN "Server misconfigured: Missing Supabase credentials"
    ELSE ""

\* Lines 274-282: the message of the configuration error, "" when every
\* credential is there
config_error(openai_key, supabase_url, supabase_key) ==
    IF openai_key = "" THEN "Server misconfigured: Missing OPENAI_API_KEY"
    ELSE IF supabase_url = "" \/ supabase_key = ""
         THEN "Server misconfigured: Missing Supabase credentials"
    ELSE ""

ConfigError == config_error(OPENAI_API_KEY, SUPABASE_URL, SUPABASE_SERVICE_ROLE_KEY)

\* Lines 274-282 with _send_json_error (235-241): a credential is missing
DoPostConfigError ==
    /\ pc = "entry"
    /\ ConfigError # ""
    /\ status' = 500
    /\ response_type' = "application/json"
    /\ json_error' = ConfigError
    /\ \E ok \in WriteOutcomes :
          /\ connected' = ok
          /\ pc' = IF ok THEN "returned" ELSE "crashed"
    /\ UNCHANGED <<credentials, idle, body_read, locals, exc, chunks, events, writes, trace>>

\* Lines 284-290: the event stream is opened
DoPostOpenStream ==
    /\ pc = "entry"
    /\ ConfigError = ""
    /\ \E ok \in WriteOutcomes :
          /\ connected' = ok
          /\ status' = IF ok THEN 200 ELSE 0
          /\ response_type' = IF ok THEN "text/event-stream" ELSE ""
          /\ pc' = IF ok THEN "parse" ELSE "crashed"
    /\ UNCHANGED <<credentials, idle, json_error, body_read, locals, exc, chunks, events,
                   writes, trace>>

\* Lines 293-303: the body is read and parsed, the message is validated
DoPostParse ==
    /\ pc = "parse"
    /\ \E req \in Requests :
          LET r == parse_request(req)
          IN  /\ body_read' = r.read
              /\ message' = r.message
              /\ history' = r.history
              /\ IF r.raised THEN Raise(r.at, r.msg)
                 ELSE /\ pc' = IF ~Truthy(r.message) THEN "no_message" ELSE "search_app"
                      /\ UNCHANGED exc
    /\ UNCHANGED <<credentials, idle, response, app_results, kb_results, messages, chunks,
                   stream, trace>>

\* Line 304
DoPostNoMessage ==
    /\ pc = "no_message"
    /\ \E ok \in WriteOutcomes :
          Emit(ErrorEvent(<<"No message provided">>), ok, "no_message_done", TRUE)
    /\ UNCHANGED <<credentials, idle, response, body_read, locals, chunks>>

\* Faulty variant for C1: the return at line 306 is missing
DoPostNoMessageDone_NoReturn ==
    /\ pc = "no_message_done"
    /\ \E ok \in WriteOutcomes : Emit(DoneEvent, ok, "search_app", TRUE)
    /\ UNCHANGED <<credentials, idle, response, body_read, locals, chunks>>

\* Lines 305-306
DoPostNoMessageDone ==
    /\ pc = "no_message_done"
    /\ \E ok \in WriteOutcomes : Emit(DoneEvent, ok, "returned", TRUE)
    /\ UNCHANGED <<credentials, idle, response, body_read, locals, chunks>>

\* Line 310
DoPostSearchApp ==
    /\ pc = "search_app"
    /\ \E embOk \in BOOLEAN, store \in AppStoreOutcomes :
          LET r == search_app_content(message, embOk,
                                      IF get_supabase_raises THEN StoreFails ELSE store)
          IN  /\ app_results' = r.value
              /\ trace' = trace \o r.calls
              /\ IF r.raised THEN Raise("search_app_content", r.msg)
                 ELSE pc' = "search_kb" /\ UNCHANGED exc
    /\ UNCHANGED <<credentials, idle, response, body_read, message, history, kb_results,
                   messages, chunks, stream>>

\* Faulty variant for C26: the KB search reuses the embedding the app search
\* got instead of embedding the query itself
DoPostSearchKb_SharedEmbedding ==
    /\ pc = "search_kb"
    /\ \E store \in KbStoreOutcomes :
          LET embOk == trace # <<>> /\ trace[1].op = "embed" /\ trace[1].ok
              r == search_kb_content(message, embOk,
                                     IF get_supabase_raises THEN StoreFails ELSE store)
          IN  /\ kb_results' = r.value
              /\ trace' = trace \o SelectSeq(r.calls, LAMBDA c : c.op # "embed")
              /\ IF r.raised THEN Raise("search_kb_content", r.msg)
                 ELSE pc' = "sources" /\ UNCHANGED exc
    /\ UNCHANGED <<credentials, idle, response, body_read, message, history, app_results,
                   messages, chunks, stream>>

\* Line 311
DoPostSearchKb ==
    /\ pc = "search_kb"
    /\ \E embOk \in BOOLEAN, store \in KbStoreOutcomes :
          LET r == search_kb_content(message, embOk,
                                     IF get_supabase_raises THEN StoreFails ELSE store)
          IN  /\ kb_results' = r.value
              /\ trace' = trace \o r.calls
              /\ IF r.raised THEN Raise("search_kb_content", r.msg)
                 ELSE pc' = "sources" /\ UNCHANGED exc
    /\ UNCHANGED <<credentials, idle, response, body_read, message, history, app_results,
                   messages, chunks, stream>>

\* Faulty variant for C12: the results of the latest search are kept in a
\* module global, so a request formats what the other request found last
DoPostSources_SharedResults ==
    /\ pc = "sources"
    /\ LET shared == IF other.pc \in {"none", "entry", "parse", "search_app"}
                     THEN app_results ELSE other.app_results
           sources == format_sources(shared, kb_results)
       IN  IF sources.raised
           THEN /\ Raise("format_sources", sources.msg)
                /\ UNCHANGED <<stream, trace>>
           ELSE \E ok \in WriteOutcomes : Emit(SourcesEvent(sources.value), ok, "build", TRUE)
    /\ UNCHANGED <<credentials, idle, response, body_read, locals, chunks>>

\* Faulty variant for C5: the sources event is sent only when there are sources
DoPostSources_SkipEmpty ==
    /\ pc = "sources"
    /\ LET sources == format_sources(app_results, kb_results)
       IN  IF sources.raised
           THEN /\ Raise("format_sources", sources.msg)
                /\ UNCHANGED <<stream, trace>>
           ELSE IF sources.value = <<>>
           THEN /\ pc' = "build"
                /\ UNCHANGED <<exc, stream, trace>>
           ELSE \E ok \in WriteOutcomes : Emit(SourcesEvent(sources.value), ok, "build", TRUE)
    /\ UNCHANGED <<credentials, idle, response, body_read, locals, chunks>>

\* Lines 314-316
DoPostSources ==
    /\ pc = "sources"
    /\ LET sources == format_sources(app_results, kb_results)
       IN  IF sources.raised
           THEN /\ Raise("format_sources", sources.msg)
                /\ UNCHANGED <<stream, trace>>
           ELSE \E ok \in WriteOutcomes : Emit(SourcesEvent(sources.value), ok, "build", TRUE)
    /\ UNCHANGED <<credentials, idle, response, body_read, locals, chunks>>

\* Lines 319-329
DoPostBuild ==
    /\ pc = "build"
    /\ LET context == build_context(app_results, kb_results)
           built == build_messages(context.value, history, message)
       IN  IF context.raised THEN Raise("build_context", context.msg) /\ UNCHANGED messages
           ELSE IF built.raised THEN Raise("history", built.msg) /\ UNCHANGED messages
           ELSE /\ messages' = built.value
                /\ pc' = "call_model"
                /\ UNCHANGED exc
    /\ UNCHANGED <<credentials, idle, response, body_read, message, history, app_results,
                   kb_results, chunks, stream, trace>>

\* Lines 333-339: the model is asked for a stream of chunks
DoPostCallModel ==
    /\ pc = "call_model"
    /\ IF get_openai_raises
       THEN Raise("get_openai", <<"Missing OPENAI_API_KEY env var">>) /\ UNCHANGED trace
       ELSE \/ /\ trace' = Append(trace, Call("chat", TRUE))
               /\ pc' = "stream"
               /\ UNCHANGED exc
            \/ \E m \in ModelErrors :
                  /\ trace' = Append(trace, Failure("chat", m))
                  /\ Raise("model_call", m)
    /\ UNCHANGED <<credentials, idle, response, body_read, locals, chunks, stream>>

\* Faulty variant for C27: only a delta of None is skipped
HasText_NotNone(delta) == ~delta.none

\* Line 342: if chunk.choices[0].delta.content
HasText(delta) == ~delta.none /\ delta.v # <<>>

\* Lines 341-344: the stream delivers one more chunk
DoPostChunk ==
    /\ pc = "stream"
    /\ Len(chunks) < MaxChunks
    /\ \E delta \in Deltas :
          /\ chunks' = Append(chunks, delta)
          /\ IF HasText(delta)
             THEN \E ok \in WriteOutcomes : Emit(ContentEvent(delta.v), ok, "stream", TRUE)
             ELSE UNCHANGED <<pc, exc, stream, trace>>
    /\ UNCHANGED <<credentials, idle, response, body_read, locals>>

\* Line 341: reading the stream fails
DoPostStreamFails ==
    /\ pc = "stream"
    /\ \E m \in ModelErrors :
          /\ trace' = Append(trace, Failure("chat_stream", m))
          /\ Raise("model_stream", m)
    /\ UNCHANGED <<credentials, idle, response, body_read, locals, chunks, stream>>

\* Lines 346-347: the stream has ended
DoPostComplete ==
    /\ pc = "stream"
    /\ \E ok \in WriteOutcomes : Emit(DoneEvent, ok, "returned", TRUE)
    /\ UNCHANGED <<credentials, idle, response, body_read, locals, chunks>>

\* Faulty variant for C7: the handler reports a fixed message
DoPostExcept_FixedMessage ==
    /\ pc = "except"
    /\ \E ok \in WriteOutcomes :
          Emit(ErrorEvent(<<"Internal server error">>), ok, "except_done", FALSE)
    /\ UNCHANGED <<credentials, idle, response, body_read, locals, chunks>>

\* Lines 349-352
DoPostExcept ==
    /\ pc = "except"
    /\ \E ok \in WriteOutcomes : Emit(ErrorEvent(exc.msg), ok, "except_done", FALSE)
    /\ UNCHANGED <<credentials, idle, response, body_read, locals, chunks>>

\* Faulty variant for C2: the exception handler stops after the error event
DoPostExceptDone_Missing ==
    /\ pc = "except_done"
    /\ pc' = "returned"
    /\ UNCHANGED <<credentials, idle, response, body_read, locals, chunks, exc, stream, trace>>

\* Line 353
DoPostExceptDone ==
    /\ pc = "except_done"
    /\ \E ok \in WriteOutcomes : Emit(DoneEvent, ok, "returned", FALSE)
    /\ UNCHANGED <<credentials, idle, response, body_read, locals, chunks>>

Next ==
    \/ DoPostConfigError
    \/ DoPostOpenStream
    \/ DoPostParse
    \/ DoPostNoMessage
    \/ DoPostNoMessageDone
    \/ DoPostSearchApp
    \/ DoPostSearchKb
    \/ DoPostSources
    \/ DoPostBuild
    \/ DoPostCallModel
    \/ DoPostChunk
    \/ DoPostStreamFails
    \/ DoPostComplete
    \/ DoPostExcept
    \/ DoPostExceptDone

Spec == Init /\ [][Next]_vars

\* Every remote call returns or fails, and the handler keeps running
FairSpec == Spec /\ WF_vars(Next)

\* ------------------------------------------------------------------------
\* Two requests handled at the same time (chat.py 228-233, 269-353)
\* ------------------------------------------------------------------------
MaxConcChunks == 1      \* chunks per request when two requests are interleaved

\* What belongs to one call of do_POST: its handler instance (the response,
\* the connection) and its locals
Frame ==
    [pc |-> pc, status |-> status, response_type |-> response_type,
     json_error |-> json_error, body_read |-> body_read, message |-> message,
     history |-> history, app_results |-> app_results, kb_results |-> kb_results,
     messages |-> messages, exc |-> exc, chunks |-> chunks, events |-> events,
     writes |-> writes, connected |-> connected, trace |-> trace]

\* The frame of a request that has just arrived
EntryFrame ==
    [pc |-> "entry", status |-> 0, response_type |-> "", json_error |-> "",
     body_read |-> FALSE, message |-> Null, history |-> NullHistory,
     app_results |-> <<>>, kb_results |-> <<>>, messages |-> <<>>, exc |-> NoException,
     chunks |-> <<>>, events |-> <<>>, writes |-> <<>>, connected |-> TRUE, trace |-> <<>>]

\* The locals and the handler instance of frame f are the ones at hand
Resume(f) ==
    /\ pc' = f.pc
    /\ status' = f.status
    /\ response_type' = f.response_type
    /\ json_error' = f.json_error
    /\ body_read' = f.body_read
    /\ message' = f.message
    /\ history' = f.history
    /\ app_results' = f.app_results
    /\ kb_results' = f.kb_results
    /\ messages' = f.messages
    /\ exc' = f.exc
    /\ chunks' = f.chunks
    /\ events' = f.events
    /\ writes' = f.writes
    /\ connected' = f.connected
    /\ trace' = f.trace

\* Two requests have arrived; the module was imported once
ConcInit ==
    /\ \E env \in Envs :
          /\ SUPABASE_URL = ResolveSupabaseUrl(env)
          /\ SUPABASE_SERVICE_ROLE_KEY = ResolveSupabaseKey(env)
          /\ OPENAI_API_KEY = ResolveOpenaiKey(env)
    /\ pc = EntryFrame.pc
    /\ status = EntryFrame.status
    /\ response_type = EntryFrame.response_type
    /\ json_error = EntryFrame.json_error
    /\ body_read = EntryFrame.body_read
    /\ message = EntryFrame.message
    /\ history = EntryFrame.history
    /\ app_results = EntryFrame.app_results
    /\ kb_results = EntryFrame.kb_results
    /\ messages = EntryFrame.messages
    /\ exc = EntryFrame.exc
    /\ chunks = EntryFrame.chunks
    /\ events = EntryFrame.events
    /\ writes = EntryFrame.writes
    /\ connected = EntryFrame.connected
    /\ trace = EntryFrame.trace
    /\ other = EntryFrame
    /\ args = NoArgs
    /\ result = NoResult
    /\ supabase_client = 0
    /\ created = 0
    /\ callers = <<>>

\* The worker turns from one request to the other.  Each call of do_POST has
\* its own handler instance and its own locals; the module constants stay.
Switch ==
    /\ other.pc # "none"
    /\ other' = Frame
    /\ Resume(other)
    /\ UNCHANGED <<credentials, args, result, clients>>

\* The inputs of the interleaved requests: a message that is "" or a question,
\* no or one turn of history, searches whose embedding call may fail and whose
\* store queries return rows, a model that may fail, a client that stays
\* connected
SmallRequest ==
    /\ message \in {Null, Str(<<>>), Question}
    /\ history \in {NullHistory, Turns(<<>>), Turns(<<Turn("user", "q1")>>)}
    /\ app_results \in {<<>>, <<TakePayment, JobPage>>}
    /\ kb_results \in {<<>>, <<PaymentsArticle>>}
    /\ \A i \in 1..Len(trace) : trace[i].op \in {"search_app_content", "search_similar_content"} => trace[i].output # <<>>
    /\ exc \in {NoException, [at |-> "model_call", msg |-> <<"Connection error.">>],
                [at |-> "model_stream", msg |-> <<"Connection error.">>]}
    /\ Len(chunks) <= MaxConcChunks
    /\ \A i \in 1..Len(chunks) : chunks[i] \in {Some(<<"a">>), None}
    /\ connected

ConcNext ==
    \/ DoPostConfigError /\ SmallRequest'
    \/ DoPostOpenStream /\ SmallRequest'
    \/ DoPostParse /\ SmallRequest'
    \/ DoPostNoMessage /\ SmallRequest'
    \/ DoPostNoMessageDone /\ SmallRequest'
    \/ DoPostSearchApp /\ SmallRequest'
    \/ DoPostSearchKb /\ SmallRequest'
    \/ DoPostSources /\ SmallRequest'
    \/ DoPostBuild /\ SmallRequest'
    \/ DoPostCallModel /\ SmallRequest'
    \/ DoPostChunk /\ SmallRequest'
    \/ DoPostStreamFails /\ SmallRequest'
    \/ DoPostComplete /\ SmallRequest'
    \/ DoPostExcept /\ SmallRequest'
    \/ DoPostExceptDone /\ SmallRequest'
    \/ Switch

ConcSpec == ConcInit /\ [][ConcNext]_vars

\* ------------------------------------------------------------------------
\* The helpers called on their own (chat.py 64-82, 140-225, 321-329)
\* ------------------------------------------------------------------------
MaxAppRows == 24        \* rows of app_results at most
MaxKbRows == 3          \* rows of kb_results at most
MaxDescLen == 405       \* characters of the longest description
MaxTurns == 8           \* turns of history at most

Chars == <<"a", "b", "c", "d", "e", "f", "g">>

\* A text of n characters
SampleText(n) == [j \in 1..n |-> Chars[((j - 1) % Len(Chars)) + 1]]

\* The metadata of the i-th app result: no key, a page title, what the
\* element opens, where it navigates to, all of them, or an empty page title
SampleMeta(i) ==
    LET m == i % 8
        keys == CASE m = 3 -> {"page_title"}
                  [] m = 4 -> {"opens_component"}
                  [] m = 5 -> {"navigates_to"}
                  [] m = 6 -> {"page_title", "opens_component", "navigates_to", "element_type"}
                  [] m = 7 -> {"page_title", "navigates_to", "component_type"}
                  [] OTHER -> {}
    IN  [NoMeta EXCEPT !.has = keys, !.element_type = <<"link">>,
                       !.component_type = <<"modal">>,
                       !.page_title = IF m = 7 THEN <<>> ELSE <<"page-" \o ToString(i)>>,
                       !.opens_component = <<"opens-" \o ToString(i)>>,
                       !.navigates_to = <<"goes-" \o ToString(i)>>]

\* The i-th row of an app result list of kind k.  Kind 1: actions of falling
\* similarity; 2: components of rising similarity; 3: pages of equal
\* similarity; 4: all categories and an unknown one, similarities with ties,
\* some rows without similarity or content_type.  In every kind the
\* description is long, short, null or missing and the metadata is missing,
\* null or one of SampleMeta.
SampleRow(i, k) ==
    LET ct == CASE k = 1 -> "action"
                [] k = 2 -> "component"
                [] k = 3 -> "page"
                [] OTHER -> <<"widget", "action", "component", "page">>[((i - 1) % 4) + 1]
        sim == CASE k = 1 -> 100 - 3 * i
                 [] k = 2 -> 3 * i
                 [] k = 3 -> 50
                 [] OTHER -> 20 * ((3 * i) % 5)
        absent == (IF i % 4 = 3 THEN {"description"} ELSE {})
                  \cup (IF i % 8 = 0 THEN {"metadata"} ELSE {})
                  \cup (IF k = 4 /\ i % 3 = 0 THEN {"similarity"} ELSE {})
                  \cup (IF k = 4 /\ i % 7 = 0 THEN {"content_type"} ELSE {})
        null == {"screenshot_url"}
                \cup (IF i % 4 = 2 THEN {"description"} ELSE {})
                \cup (IF i % 8 = 1 THEN {"metadata"} ELSE {})
    IN  [EmptyRow EXCEPT !.has = AppKeys \ absent, !.null = null,
                         !.id = <<"app-" \o ToString(i)>>,
                         !.content_type = <<ct>>,
                         !.title = <<"title-" \o ToString(i)>>,
                         !.description = SampleText(IF i % 4 = 0 THEN MaxDescLen ELSE 4),
                         !.url_or_path = <<"/app/" \o ToString(i)>>,
                         !.similarity = sim,
                         !.metadata = SampleMeta(i)]

\* The i-th row of a KB result list of kind k: with chunk_id and id or with id
\* alone, the second row with a long content, and in kind 2 rows of equal
\* similarity, a null content, a missing similarity and a missing title
SampleKb(i, k) ==
    LET keys == {"id", "content", "source_url"}
                \cup (IF i % 2 = 1 THEN {"chunk_id"} ELSE {})
                \cup (IF k = 1 \/ i # 2 THEN {"similarity", "title"} ELSE {})
    IN  [EmptyRow EXCEPT !.has = keys,
                         !.null = IF k = 2 /\ i = 1 THEN {"content"} ELSE {},
                         !.id = <<"kb-" \o ToString(i)>>,
                         !.chunk_id = <<"chunk-" \o ToString(i)>>,
                         !.title = <<"article-" \o ToString(i)>>,
                         !.content = SampleText(IF i = 2 THEN MaxDescLen ELSE 3),
                         !.source_url = <<"/kb/" \o ToString(i)>>,
                         !.similarity = IF k = 1 THEN 50 + 10 * i ELSE 60]

AppLists == {[i \in 1..n |-> SampleRow(i, k)] : n \in 0..MaxAppRows, k \in 1..4}
KbLists == {[i \in 1..n |-> SampleKb(i, k)] : n \in 0..MaxKbRows, k \in 1..2}

\* The i-th turn of a history: user and assistant in turn, every third one
\* without a role
SampleTurn(i) ==
    IF i % 3 = 0 THEN BareTurn("turn-" \o ToString(i))
    ELSE Turn(IF i % 2 = 1 THEN "user" ELSE "assistant", "turn-" \o ToString(i))

Histories == {Turns([i \in 1..n |-> SampleTurn(i)]) : n \in 0..MaxTurns}

\* Values handed to generate_embedding as text: "", whitespace, questions,
\* None, and the lists a request can carry as its message
Texts == {Str(<<>>), Str(<<" ", "\n", "\t">>), Question, Str(<<" ", "h", "i", " ">>),
          Null, List(<<>>), List(<<"hi">>)}

\* The call of a helper: its name and its arguments
Args(fn, a, k, c, h, m, e) ==
    [fn |-> fn, app_results |-> a, kb_results |-> k, context |-> c, history |-> h,
     message |-> m, embOk |-> e, store |-> StoreNoData]

\* ------------------------------------------------------------------------
\* Settings.get_database_url (settings.py 73-97)
\* ------------------------------------------------------------------------
DEFAULT_DB_PORT == 5432
POOLER_PORT == 6543

\* The fields of a Settings object that get_database_url reads; "" stands
\* for a field that is not set (None)
SettingsValues ==
    [database_url : {"", "postgresql://pooler"},
     database_url_direct : {"", "postgresql://direct"},
     supabase_db_host : {"", "db.host"},
     supabase_db_password : {"", "pw"},
     supabase_db_user : {"", "postgres"},
     supabase_db_port : {DEFAULT_DB_PORT, 5433},
     supabase_db_name : {"postgres"}]

get_database_url(self, direct) ==
    IF direct /\ self.database_url_direct # "" THEN Returned(<<self.database_url_direct>>)
    ELSE IF ~direct /\ self.database_url # "" THEN Returned(<<self.database_url>>)
    ELSE IF self.supabase_db_host # "" /\ self.supabase_db_password # ""
            /\ self.supabase_db_user # ""
    THEN LET port == IF direct THEN self.supabase_db_port ELSE POOLER_PORT
         IN  Returned(<<"postgresql://", self.supabase_db_user, ":",
                        self.supabase_db_password, "@", self.supabase_db_host, ":",
                        ToString(port), "/", self.supabase_db_name>>)
    ELSE Raised(<<"Database connection not configured. Set DATABASE_URL or individual DB components in .env">>,
                <<>>)

\* ------------------------------------------------------------------------
\* Page templates (page_templates.py 22-367)
\* ------------------------------------------------------------------------
MaxSegments == 3        \* segments of a path at most

\* A path is the sequence of its segments: <<"jobs", "12">> is /jobs/12 and
\* <<>> the empty path. The segments looked at, and what the character
\* classes of the patterns make of each: digits (all of it matches \d+),
\* hex (all of it matches [0-9a-f-]+), hex8 (it begins with eight characters
\* of [0-9a-f-]) and id (one of GENERIC_ID_REGEX is found in it, which then
\* covers all of it)
SegmentKinds ==
    [s \in {"jobs", "reports", "settings", "foo", "new", "communications", "12", "12345",
            "0123abcd-0123-0123-0123-0123456789ab"} |->
        [digits |-> s \in {"12", "12345"},
         hex |-> s \in {"12", "12345", "0123abcd-0123-0123-0123-0123456789ab"},
         hex8 |-> s = "0123abcd-0123-0123-0123-0123456789ab",
         id |-> s \in {"12345", "0123abcd-0123-0123-0123-0123456789ab"}]]

Paths == UNION {[1..n -> DOMAIN SegmentKinds] : n \in 0..MaxSegments}

\* Lines 270-285: re.match of some unique pattern at the start of the path
UNIQUE_PATTERNS(path) ==
    \/ Len(path) >= 2 /\ path[1] \in {"settings", "accountsettings"}
    \/ Len(path) >= 2 /\ path[1] = "reports" /\ path[2] = "glossary"
    \/ Len(path) >= 2 /\ path[2] \in {"new", "create"}
    \/ Len(path) = 1

\* Lines 22-262: the key of the first template whose pattern matches, "" when
\* none does. Of the templates only those are listed whose patterns can match
\* a path made of the segments above: every other pattern asks for a literal
\* segment that is not among them.
TEMPLATE_PATTERNS(path) ==
    IF Len(path) >= 2 /\ path[1] = "reports" /\ SegmentKinds[path[2]].hex8
    THEN "report_viewer"
    ELSE IF Len(path) = 2 /\ path[1] = "jobs"
            /\ (SegmentKinds[path[2]].hex8 \/ SegmentKinds[path[2]].digits)
    THEN "jobs"
    ELSE IF Len(path) = 3 /\ path[1] = "jobs" /\ SegmentKinds[path[2]].hex
            /\ path[3] = "communications"
    THEN "job_communications"
    ELSE ""

\* The keys of the dictionary TEMPLATE_PATTERNS that the paths above can get
TemplateKeys == {"report_viewer", "jobs", "job_communications"}

has_id_segment(path) == \E i \in 1..Len(path) : SegmentKinds[path[i]].id

get_path_without_id(path) ==
    [i \in 1..Len(path) |-> IF SegmentKinds[path[i]].id THEN ":id" ELSE path[i]]

\* Lines 320-346: None, the key of a template, or "generic:" and the path
\* without its IDs
get_template_key(path) ==
    IF UNIQUE_PATTERNS(path) THEN None
    ELSE IF TEMPLATE_PATTERNS(path) # "" THEN Some(<<TEMPLATE_PATTERNS(path)>>)
    ELSE IF has_id_segment(path) THEN Some(<<"generic:">> \o get_path_without_id(path))
    ELSE None

\* Lines 349-367: line 363 looks the key up in TEMPLATE_PATTERNS
get_template_base_path(path) ==
    LET template_key == get_template_key(path)
    IN  IF template_key.none THEN Returned(<<path, FALSE>>)
        ELSE IF Len(template_key.v) # 1 \/ template_key.v[1] \notin TemplateKeys
             THEN Raised(<<"KeyError">> \o template_key.v, <<>>)
        ELSE Returned(<<(<<"/">> \o template_key.v \o <<"/:template">>), TRUE>>)

\* The two health checks. Such a call names the environment of the process
\* and a twin environment in which the same variables are set, to values that
\* may differ
HealthChecks == {"health.do_GET", "chat.do_GET"}

\* The two searches
Searches == {"search_app_content", "search_kb_content"}

HelperCalls ==
    {Args(fn, a, k, <<>>, NullHistory, Null, TRUE) :
        fn \in {"format_sources", "build_context"}, a \in AppLists, k \in KbLists}
    \cup {Args("build_messages", <<>>, <<>>, c, h, Question, TRUE) :
            c \in {NO_DOCS, ACTIONS_HEADER}, h \in Histories}
    \cup {Args("generate_embedding", <<>>, <<>>, <<>>, NullHistory, m, e) :
            m \in Texts, e \in BOOLEAN}
    \cup {[Args("search_app_content", <<>>, <<>>, <<>>, NullHistory, m, e)
               EXCEPT !.store = s] : m \in Texts, e \in BOOLEAN, s \in AppStoreOutcomes}
    \cup {[Args("search_kb_content", <<>>, <<>>, <<>>, NullHistory, m, e)
               EXCEPT !.store = s] : m \in Texts, e \in BOOLEAN, s \in KbStoreOutcomes}
    \cup UNION {{[fn |-> fn, env |-> env, twin |-> twin] :
                    fn \in HealthChecks,
                    twin \in {t \in [EnvVars -> {"", "secret", "hunter2"}] :
                                 \A v \in EnvVars : (t[v] = "") <=> (env[v] = "")}} :
                 env \in Envs}
    \cup {[fn |-> "get_database_url", self |-> self, direct |-> direct] :
            self \in SettingsValues, direct \in BOOLEAN}
    \cup {[fn |-> "get_template_base_path", path |-> path] : path \in Paths}

\* No request is handled. The module is imported with every credential set,
\* or, for the searches, in any environment.
HelperInit ==
    /\ args \in HelperCalls
    /\ \E env \in IF args.fn \in Searches THEN Envs
                  ELSE IF args.fn \in HealthChecks THEN {args.env}
                  ELSE {[v \in EnvVars |-> "secret"]} :
          /\ SUPABASE_URL = ResolveSupabaseUrl(env)
          /\ SUPABASE_SERVICE_ROLE_KEY = ResolveSupabaseKey(env)
          /\ OPENAI_API_KEY = ResolveOpenaiKey(env)
    /\ pc = "none"
    /\ status = 0
    /\ response_type = ""
    /\ json_error = ""
    /\ body_read = FALSE
    /\ message = Null
    /\ history = NullHistory
    /\ app_results = <<>>
    /\ kb_results = <<>>
    /\ messages = <<>>
    /\ exc = NoException
    /\ chunks = <<>>
    /\ events = <<>>
    /\ writes = <<>>
    /\ connected = TRUE
    /\ trace = <<>>
    /\ other = NoFrame
    /\ result = NoResult
    /\ supabase_client = 0
    /\ created = 0
    /\ callers = <<>>

\* What the call of a helper leaves alone
request == <<credentials, pc, response, body_read, locals, exc, chunks, stream, trace, other,
             clients>>

CallFormatSources ==
    /\ args.fn = "format_sources" /\ ~result.done
    /\ result' = [done |-> TRUE, out |-> format_sources(args.app_results, args.kb_results)]
    /\ UNCHANGED <<request, args>>

CallBuildContext ==
    /\ args.fn = "build_context" /\ ~result.done
    /\ result' = [done |-> TRUE, out |-> build_context(args.app_results, args.kb_results)]
    /\ UNCHANGED <<request, args>>

CallBuildMessages ==
    /\ args.fn = "build_messages" /\ ~result.done
    /\ result' = [done |-> TRUE,
                  out |-> build_messages(args.context, args.history, args.message)]
    /\ UNCHANGED <<request, args>>

CallGenerateEmbedding ==
    /\ args.fn = "generate_embedding" /\ ~result.done
    /\ result' = [done |-> TRUE, out |-> generate_embedding(args.message, args.embOk)]
    /\ UNCHANGED <<request, args>>

\* The clients are built inside the try blocks (lines 72 and 102, 127): without
\* its credential a remote call fails
CallSearchAppContent ==
    /\ args.fn = "search_app_content" /\ ~result.done
    /\ result' = [done |-> TRUE,
                  out |-> search_app_content(args.message,
                                             args.embOk /\ ~get_openai_raises,
                                             IF get_supabase_raises THEN StoreFails
                                             ELSE args.store)]
    /\ UNCHANGED <<request, args>>

CallSearchKbContent ==
    /\ args.fn = "search_kb_content" /\ ~result.done
    /\ result' = [done |-> TRUE,
                  out |-> search_kb_content(args.message,
                                            args.embOk /\ ~get_openai_raises,
                                            IF get_supabase_raises THEN StoreFails
                                            ELSE args.store)]
    /\ UNCHANGED <<request, args>>

CallHealthGet ==
    /\ args.fn = "health.do_GET" /\ ~result.done
    /\ result' = [done |-> TRUE, out |-> health_do_GET(args.env),
                  twin |-> health_do_GET(args.twin)]
    /\ UNCHANGED <<request, args>>

CallChatGet ==
    /\ args.fn = "chat.do_GET" /\ ~result.done
    /\ result' = [done |-> TRUE,
                  out |-> chat_do_GET(SUPABASE_URL, SUPABASE_SERVICE_ROLE_KEY, OPENAI_API_KEY),
                  twin |-> chat_do_GET(ResolveSupabaseUrl(args.twin),
                                       ResolveSupabaseKey(args.twin),
                                       ResolveOpenaiKey(args.twin))]
    /\ UNCHANGED <<request, args>>

CallGetDatabaseUrl ==
    /\ args.fn = "get_database_url" /\ ~result.done
    /\ result' = [done |-> TRUE, out |-> get_database_url(args.self, args.direct)]
    /\ UNCHANGED <<request, args>>

CallGetTemplateBasePath ==
    /\ args.fn = "get_template_base_path" /\ ~result.done
    /\ result' = [done |-> TRUE, out |-> get_template_base_path(args.path)]
    /\ UNCHANGED <<request, args>>

HelperNext ==
    \/ CallFormatSources
    \/ CallBuildContext
    \/ CallBuildMessages
    \/ CallGenerateEmbedding
    \/ CallSearchAppContent
    \/ CallSearchKbContent
    \/ CallHealthGet
    \/ CallChatGet
    \/ CallGetDatabaseUrl
    \/ CallGetTemplateBasePath

HelperSpec == HelperInit /\ [][HelperNext]_vars

\* ------------------------------------------------------------------------
\* The two searches of a request run in any order (chat.py 308-311, 85-137)
\* ------------------------------------------------------------------------

\* The outcomes of the four remote calls of the searches are fixed when the
\* request arrives; "at" is the position of each search
AnyOrderInit ==
    /\ SUPABASE_URL = "secret"
    /\ SUPABASE_SERVICE_ROLE_KEY = "secret"
    /\ OPENAI_API_KEY = "secret"
    /\ pc = "entry"
    /\ status = 0
    /\ response_type = ""
    /\ json_error = ""
    /\ body_read = FALSE
    /\ message = Null
    /\ history = NullHistory
    /\ app_results = <<>>
    /\ kb_results = <<>>
    /\ messages = <<>>
    /\ exc = NoException
    /\ chunks = <<>>
    /\ events = <<>>
    /\ writes = <<>>
    /\ connected = TRUE
    /\ trace = <<>>
    /\ other = NoFrame
    /\ \E ea \in BOOLEAN, ek \in BOOLEAN, sa \in AppStoreOutcomes, sk \in KbStoreOutcomes :
          args = [fn |-> "do_POST",
                  embOk |-> [s \in Searches |-> IF s = "search_app_content" THEN ea ELSE ek],
                  store |-> [s \in Searches |-> IF s = "search_app_content" THEN sa ELSE sk]]
    /\ result = [done |-> FALSE, at |-> [s \in Searches |-> "start"]]
    /\ supabase_client = 0
    /\ created = 0
    /\ callers = <<>>

\* Both searches have returned once s has
LastToReturn(s) == \A o \in Searches \ {s} : result.at[o] = "end"

\* Faulty variant for C22: the embedding is cached in a module global, so the
\* search that starts second reuses what the first one got
SearchEmbed_SharedEmbedding ==
    /\ pc = "search_app"
    /\ \E s \in Searches :
          LET started == {o \in Searches : result.at[o] # "start"}
              first == IF started = {} THEN s ELSE CHOOSE o \in started : TRUE
              emb == generate_embedding(message, args.embOk[first])
              absent == emb.value.none \/ emb.value.v = <<>>
          IN  /\ result.at[s] = "start"
              /\ trace' = trace \o (IF started = {} THEN emb.sent ELSE <<>>)
              /\ IF emb.raised
                 THEN Raise(s, emb.msg) /\ UNCHANGED result
                 ELSE /\ result' = [result EXCEPT !.at[s] = IF absent THEN "end" ELSE "query"]
                      /\ pc' = IF absent /\ LastToReturn(s) THEN "sources" ELSE pc
                      /\ UNCHANGED exc
    /\ UNCHANGED <<credentials, other, args, clients, response, body_read, locals, chunks,
                   stream>>

\* Lines 95-99 and 123-125: a search embeds the query and returns [] when the
\* embedding is absent (the slice of line 94 cannot fail on a message that
\* passed line 300)
SearchEmbed ==
    /\ pc = "search_app"
    /\ \E s \in Searches :
          LET emb == generate_embedding(message, args.embOk[s])
              absent == emb.value.none \/ emb.value.v = <<>>
          IN  /\ result.at[s] = "start"
              /\ trace' = trace \o emb.sent
              /\ IF emb.raised
                 THEN Raise(s, emb.msg) /\ UNCHANGED result
                 ELSE /\ result' = [result EXCEPT !.at[s] = IF absent THEN "end" ELSE "query"]
                      /\ pc' = IF absent /\ LastToReturn(s) THEN "sources" ELSE pc
                      /\ UNCHANGED exc
    /\ UNCHANGED <<credentials, other, args, clients, response, body_read, locals, chunks,
                   stream>>

\* Lines 101-118 and 127-137: the search queries its store and returns the
\* rows, [] when the query fails or gives no data
SearchQuery ==
    /\ pc = "search_app"
    /\ \E s \in Searches :
          LET store == IF get_supabase_raises THEN StoreFails ELSE args.store[s]
              rows == IF store.fail \/ store.none THEN <<>> ELSE store.data
              op == IF s = "search_app_content" THEN "search_app_content"
                    ELSE "search_similar_content"
          IN  /\ result.at[s] = "query"
              /\ app_results' = IF s = "search_app_content" THEN rows ELSE app_results
              /\ kb_results' = IF s = "search_kb_content" THEN rows ELSE kb_results
              /\ trace' = Append(trace, [op |-> op, ok |-> ~store.fail, input |-> <<>>,
                                          output |-> store.data, error |-> <<>>])
              /\ result' = [result EXCEPT !.at[s] = "end"]
              /\ pc' = IF LastToReturn(s) THEN "sources" ELSE pc
    /\ UNCHANGED <<credentials, other, args, clients, response, body_read, message, history,
                   messages, exc, chunks, stream>>

\* The requests looked at: a message that passes line 303, no history, a
\* client that stays connected
PlainRequest ==
    /\ message \in {Null, Question, Str(<<" ", "\n">>), List(<<"hi">>)}
    /\ history \in {NullHistory, Turns(<<>>)}
    /\ Len(chunks) <= MaxConcChunks
    /\ \A i \in 1..Len(chunks) : chunks[i] \in {Some(<<"a">>), None}
    /\ connected

AnyOrderNext ==
    \/ DoPostOpenStream /\ PlainRequest'
    \/ DoPostParse /\ PlainRequest'
    \/ SearchEmbed
    \/ SearchQuery
    \/ DoPostSources /\ PlainRequest'
    \/ DoPostBuild
    \/ DoPostCallModel /\ PlainRequest'
    \/ DoPostChunk /\ PlainRequest'
    \/ DoPostStreamFails /\ PlainRequest'
    \/ DoPostComplete /\ PlainRequest'
    \/ DoPostExcept /\ PlainRequest'
    \/ DoPostExceptDone /\ PlainRequest'

AnyOrderSpec == AnyOrderInit /\ [][AnyOrderNext]_vars

\* ------------------------------------------------------------------------
\* Concurrent calls of get_supabase_client (supabase_client.py 8-21)
\* ------------------------------------------------------------------------
MaxCallers == 3         \* threads that call get_supabase_client

\* No request is handled; every caller is about to test the global. A caller
\* holds its position, the client create_client gave it and the client it
\* returned (0: none).
ClientInit ==
    /\ SUPABASE_URL = "secret"
    /\ SUPABASE_SERVICE_ROLE_KEY = "secret"
    /\ OPENAI_API_KEY = "secret"
    /\ pc = "none"
    /\ status = 0
    /\ response_type = ""
    /\ json_error = ""
    /\ body_read = FALSE
    /\ message = Null
    /\ history = NullHistory
    /\ app_results = <<>>
    /\ kb_results = <<>>
    /\ messages = <<>>
    /\ exc = NoException
    /\ chunks = <<>>
    /\ events = <<>>
    /\ writes = <<>>
    /\ connected = TRUE
    /\ trace = <<>>
    /\ other = NoFrame
    /\ args = [fn |-> "get_supabase_client"]
    /\ result = NoResult
    /\ supabase_client = 0
    /\ created = 0
    /\ callers = [t \in 1..MaxCallers |-> [pc |-> "test", made |-> 0, returned |-> 0]]

\* Line 15: if _supabase_client is None
TestClient ==
    /\ \E t \in DOMAIN callers :
          /\ callers[t].pc = "test"
          /\ callers' = [callers EXCEPT ![t].pc = IF supabase_client = 0 THEN "create"
                                                  ELSE "return"]
    /\ UNCHANGED <<supabase_client, created>>
    /\ UNCHANGED <<credentials, pc, response, body_read, locals, exc, chunks, stream, trace,
                   other, args, result>>

\* Lines 16-19: create_client(...) builds a new client
CreateClient ==
    /\ \E t \in DOMAIN callers :
          /\ callers[t].pc = "create"
          /\ created' = created + 1
          /\ callers' = [callers EXCEPT ![t].pc = "assign", ![t].made = created + 1]
    /\ UNCHANGED supabase_client
    /\ UNCHANGED <<credentials, pc, response, body_read, locals, exc, chunks, stream, trace,
                   other, args, result>>

\* Line 16: the client is stored in the global
AssignClient ==
    /\ \E t \in DOMAIN callers :
          /\ callers[t].pc = "assign"
          /\ supabase_client' = callers[t].made
          /\ callers' = [callers EXCEPT ![t].pc = "return"]
    /\ UNCHANGED created
    /\ UNCHANGED <<credentials, pc, response, body_read, locals, exc, chunks, stream, trace,
                   other, args, result>>

\* Line 21: return _supabase_client
ReturnClient ==
    /\ \E t \in DOMAIN callers :
          /\ callers[t].pc = "return"
          /\ callers' = [callers EXCEPT ![t].pc = "done", ![t].returned = supabase_client]
    /\ UNCHANGED <<supabase_client, created>>
    /\ UNCHANGED <<credentials, pc, response, body_read, locals, exc, chunks, stream, trace,
                   other, args, result>>

ClientNext ==
    \/ TestClient
    \/ CreateClient
    \/ AssignClient
    \/ ReturnClient

ClientSpec == ClientInit /\ [][ClientNext]_vars

\* ------------------------------------------------------------------------
\* Vocabulary of the properties
\* ------------------------------------------------------------------------
Types(evs) == [i \in 1..Len(evs) |-> evs[i].type]
Count(evs, type) == Cardinality({i \in 1..Len(evs) : evs[i].type = type})
OfEventType(evs, type) == SelectSeq(evs, LAMBDA e : e.type = type)

StreamOpened == status = 200
Finished == pc = "returned"
DoneIsLast == events # <<>> /\ events[Len(events)] = DoneEvent

RemoteOps == {"embed", "search_app_content", "search_similar_content", "chat", "chat_stream"}
RemoteCalls == SelectSeq(trace, LAMBDA c : c.op \in RemoteOps)
Called(op) == \E i \in 1..Len(trace) : trace[i].op = op

\* The handler has got past line 316
SourcesStageDone ==
    \/ pc \in {"build", "call_model", "stream"}
    \/ /\ pc \in {"except", "except_done", "returned"}
       /\ exc.at \in {"build_context", "history", "get_openai", "model_call", "model_stream"}
    \/ pc = "returned" /\ exc = NoException /\ Truthy(message)

\* The request was refused at line 303
NoMessageGiven == StreamOpened /\ body_read /\ exc = NoException /\ ~Truthy(message)

\* The content events the chunks received so far call for
ExpectedContents ==
    LET texts == SelectSeq(chunks, LAMBDA d : ~d.none /\ d.v # <<>>)
    IN  [i \in 1..Len(texts) |->
            [type |-> "content", sources |-> <<>>, text |-> texts[i].v, message |-> <<>>]]

\* The events do_POST hands to _send_event up to its current position, as a
\* function of the request, the search results, the chunks and the exception
ExpectedEvents ==
    (IF SourcesStageDone
     THEN <<SourcesEvent(format_sources(app_results, kb_results).value)>> ELSE <<>>)
    \o ExpectedContents
    \o (IF exc # NoException /\ pc \in {"except_done", "returned"}
        THEN <<ErrorEvent(exc.msg)>>
        ELSE IF NoMessageGiven /\ pc \in {"no_message_done", "returned"}
        THEN <<ErrorEvent(<<"No message provided">>)>>
        ELSE <<>>)
    \o (IF StreamOpened /\ Finished THEN <<DoneEvent>> ELSE <<>>)

\* ------------------------------------------------------------------------
\* C1
\* ------------------------------------------------------------------------

\* ts can still grow into a sequence of the form sources? content* error? done
ProtocolPrefix(ts) ==
    \A i \in 1..Len(ts) :
        /\ ts[i] \in {"sources", "content", "error", "done"}
        /\ ts[i] = "sources" => i = 1
        /\ ts[i] = "done" => i = Len(ts)
        /\ ts[i] = "error" => i = Len(ts) \/ (i = Len(ts) - 1 /\ ts[Len(ts)] = "done")

\* ts has the form sources? content* error? done
Protocol(ts) == ProtocolPrefix(ts) /\ ts # <<>> /\ ts[Len(ts)] = "done"

\* C1: the events handed to _send_event by a request that opened the stream
\* form sources? content* error? done: at every moment they are a prefix of
\* such a sequence (so nothing follows done, sources comes first, error is
\* followed by done alone), and when do_POST returns they are such a sequence.
C1_EventProtocol ==
    /\ ProtocolPrefix(Types(events))
    /\ (StreamOpened /\ Finished) => Protocol(Types(events))
    /\ ~StreamOpened => events = <<>>

C1_Witness ==
    /\ StreamOpened /\ Finished
    /\ Types(events) = <<"sources", "content", "error", "done">>

\* ------------------------------------------------------------------------
\* C2
\* ------------------------------------------------------------------------

\* C2: once the stream is open, do_POST eventually returns with a done event
\* as the last event it has emitted, whatever failed in between.
C2_DoneEventually == StreamOpened ~> (Finished /\ DoneIsLast)

C2_Witness ==
    /\ StreamOpened /\ Finished /\ DoneIsLast
    /\ exc.at = "history"

\* ------------------------------------------------------------------------
\* C3
\* ------------------------------------------------------------------------
CredentialMissing ==
    OPENAI_API_KEY = "" \/ SUPABASE_URL = "" \/ SUPABASE_SERVICE_ROLE_KEY = ""

\* C3: with a credential missing do_POST answers 500 with a JSON error body and
\* does nothing else: no event-stream headers, no event, no read of the body,
\* no embedding, search or model call.
C3_ConfigErrorBeforeStream ==
    CredentialMissing =>
        /\ pc \in {"entry", "returned", "crashed"}
        /\ pc # "entry" => /\ status = 500
                           /\ response_type = "application/json"
                           /\ json_error # ""
        /\ pc = "entry" => status = 0 /\ response_type = ""
        /\ events = <<>>
        /\ writes = <<>>
        /\ ~body_read
        /\ trace = <<>>

C3_Witness ==
    /\ Finished /\ status = 500
    /\ OPENAI_API_KEY # "" /\ SUPABASE_URL # "" /\ SUPABASE_SERVICE_ROLE_KEY = ""

\* ------------------------------------------------------------------------
\* C4
\* ------------------------------------------------------------------------

\* C4: a request whose message is "" or missing yields exactly the events
\* error, done and makes no remote call.
C4_EmptyMessage ==
    (StreamOpened /\ body_read /\ exc = NoException /\ message = Str(<<>>)) =>
        /\ pc \in {"no_message", "no_message_done", "returned"}
        /\ RemoteCalls = <<>>
        /\ pc = "no_message" => events = <<>>
        /\ pc = "no_message_done" => events = <<ErrorEvent(<<"No message provided">>)>>
        /\ Finished => events = <<ErrorEvent(<<"No message provided">>), DoneEvent>>

C4_Witness ==
    /\ Finished /\ StreamOpened /\ body_read /\ exc = NoException
    /\ message = Str(<<>>)
    /\ Types(events) = <<"error", "done">>

\* ------------------------------------------------------------------------
\* C5
\* ------------------------------------------------------------------------

\* The message got past the validation at line 303 (and the slice at 301)
PassedValidation ==
    StreamOpened /\ body_read /\ Truthy(message) /\ message.t \in {"str", "list"}

NonEmptyString(x) == x.t = "str" /\ x.s # <<>>

SearchOps == {"embed", "search_app_content", "search_similar_content"}

\* In the trace the sources event stands behind every call of the searches
\* and before the model call
SourcesBetweenSearchAndModel ==
    \A i \in 1..Len(trace) :
        trace[i].op = "sources" =>
            \A j \in 1..Len(trace) :
                /\ trace[j].op \in SearchOps => j < i
                /\ trace[j].op \in {"chat", "chat_stream"} => i < j

\* C5 as claimed: every request with a non-empty message has emitted exactly
\* one sources event when do_POST returns.
C5_Original == (PassedValidation /\ Finished) => Count(events, "sources") = 1

\* C5 as amended: a request whose message is a non-empty string emits exactly
\* one sources event, carrying the output of format_sources (also when that is
\* empty), behind both searches and before the model call, unless
\* format_sources raises; a request whose message is not a string, or whose
\* results make format_sources raise, emits no sources event at all.
C5_SourcesOnce ==
    /\ Count(events, "sources") <= 1
    /\ SourcesBetweenSearchAndModel
    /\ SourcesStageDone =>
          /\ events # <<>>
          /\ events[1] = SourcesEvent(format_sources(app_results, kb_results).value)
          /\ ~format_sources(app_results, kb_results).raised
    /\ (PassedValidation /\ Finished) =>
          /\ (NonEmptyString(message) /\ exc.at # "format_sources") => Count(events, "sources") = 1
          /\ (~NonEmptyString(message) \/ exc.at = "format_sources") => Count(events, "sources") = 0
    /\ pc \in {"search_app", "search_kb", "sources"} => events = <<>> /\ ~Called("chat")

C5_Witness ==
    /\ Finished /\ NonEmptyString(message) /\ exc = NoException
    /\ events[1] = SourcesEvent(<<>>)
    /\ \E i \in 1..Len(trace) : trace[i].op = "search_app_content" /\ trace[i].ok
    /\ \E i \in 1..Len(trace) : trace[i].op = "search_similar_content" /\ trace[i].ok
    /\ Called("chat")

\* ------------------------------------------------------------------------
\* C6
\* ------------------------------------------------------------------------
SearchCalls == SelectSeq(trace, LAMBDA c : c.op \in SearchOps)
SearchFailureSeen == \E i \in 1..Len(SearchCalls) : ~SearchCalls[i].ok
SearchesOver == pc \notin {"entry", "parse", "search_app", "search_kb"}

\* The app search ran into a failing embedding or store call; its calls are
\* the first ones of the trace
AppSearchFailed ==
    /\ SearchCalls # <<>>
    /\ \/ ~SearchCalls[1].ok
       \/ Len(SearchCalls) >= 2 /\ SearchCalls[2].op = "search_app_content" /\ ~SearchCalls[2].ok

\* The calls of the KB search: those behind the calls of the app search
KbCalls ==
    LET n == IF SearchCalls # <<>> /\ SearchCalls[1].ok THEN 2 ELSE 1
    IN  SubSeq(SearchCalls, n + 1, Len(SearchCalls))

KbSearchFailed == \E i \in 1..Len(KbCalls) : ~KbCalls[i].ok

\* Every search made a remote call that failed
AllSearchesFailed == SearchesOver /\ AppSearchFailed /\ KbSearchFailed

\* The rows of the store queries that succeeded
RowsReturned(op) ==
    IF \E i \in 1..Len(trace) : trace[i].op = op /\ trace[i].ok
    THEN (CHOOSE c \in {trace[i] : i \in 1..Len(trace)} : c.op = op /\ c.ok).output
    ELSE <<>>

AfterSearchCauses == {"format_sources", "build_context", "history", "model_call", "model_stream"}

\* C6: a failing embedding call or store query is never the cause of an error
\* event.  The failed search contributes no results and the other one its rows;
\* the sources event carries format_sources of these results (the empty list
\* when every search failed), the model is called with build_context of them
\* (the sentinel when every search failed), and do_POST ends with done.
C6_SearchFailuresDegrade ==
    SearchFailureSeen =>
        /\ exc.at \in {""} \cup AfterSearchCauses
        /\ pc \notin {"no_message", "no_message_done", "crashed"}
        /\ (AppSearchFailed /\ pc # "search_app") => app_results = <<>>
        /\ (KbSearchFailed /\ SearchesOver) => kb_results = <<>>
        /\ pc # "search_app" => app_results = RowsReturned("search_app_content")
        /\ SearchesOver => kb_results = RowsReturned("search_similar_content")
        /\ (SearchesOver /\ pc # "sources" /\ exc.at # "format_sources") =>
              /\ events # <<>>
              /\ events[1] = SourcesEvent(format_sources(app_results, kb_results).value)
              /\ AllSearchesFailed => events[1] = SourcesEvent(<<>>)
        /\ Called("chat") =>
              /\ Len(messages) >= 2
              /\ messages[2].content =
                     CONTEXT_INTRO \o build_context(app_results, kb_results).value
              /\ AllSearchesFailed => messages[2].content = CONTEXT_INTRO \o NO_DOCS
        /\ Finished =>
              /\ DoneIsLast
              /\ exc = NoException => Called("chat") /\ Count(events, "error") = 0
              /\ exc.at \notin {"build_context", "history", "format_sources"} => Called("chat")

C6_Witness ==
    /\ Finished /\ AllSearchesFailed /\ exc = NoException
    /\ Types(events) = <<"sources", "content", "done">>
    /\ messages[2].content = CONTEXT_INTRO \o NO_DOCS

\* ------------------------------------------------------------------------
\* C7
\* ------------------------------------------------------------------------
ModelFailed == exc.at \in {"model_call", "model_stream"}

\* The message of the failure the model call or stream ended with
ModelFailureMessage == trace[CHOOSE i \in 1..Len(trace) :
                                trace[i].op \in {"chat", "chat_stream"} /\ ~trace[i].ok].error

\* C7: when the model call or stream fails after k content events, the events
\* are sources, the k content events, then (once the handler has sent them) an
\* error event with the failure's message and done: nothing else, in particular
\* no content behind the error.
C7_GenerationFailure ==
    ModelFailed =>
        /\ pc \in {"except", "except_done", "returned"}
        /\ events = <<SourcesEvent(format_sources(app_results, kb_results).value)>>
                    \o ExpectedContents
                    \o (IF pc \in {"except_done", "returned"}
                        THEN <<ErrorEvent(ModelFailureMessage)>> ELSE <<>>)
                    \o (IF Finished THEN <<DoneEvent>> ELSE <<>>)
        /\ exc.at = "model_call" => chunks = <<>>

C7_Witness ==
    /\ Finished /\ exc.at = "model_stream"
    /\ Types(events) = <<"sources", "content", "content", "error", "done">>

\* ------------------------------------------------------------------------
\* C8
\* ------------------------------------------------------------------------

\* C8: the content events are, in order, one event per text fragment received
\* from the model, each carrying its fragment unchanged (a chunk whose delta is
\* empty or None carries no fragment).
C8_FragmentsForwarded == OfEventType(events, "content") = ExpectedContents

C8_Witness ==
    /\ Finished
    /\ chunks = <<Some(<<" ", "b">>), Some(<<"a">>)>>
    /\ Len(events) = 4
    /\ events[2].type = "content" /\ events[2].text = <<" ", "b">>
    /\ events[3].type = "content" /\ events[3].text = <<"a">>

\* ------------------------------------------------------------------------
\* C9
\* ------------------------------------------------------------------------

\* C9 as claimed: once a write to the stream has failed, no later _send_event
\* attempts a write: a failed write is the last write of the request.
C9_NoWriteAfterFailure == \A i \in 1..Len(writes) : ~writes[i].ok => i = Len(writes)

\* ------------------------------------------------------------------------
\* C10
\* ------------------------------------------------------------------------
WriteFailed == \E i \in 1..Len(writes) : ~writes[i].ok

\* C10: a failed write is swallowed in _send_event.  No exception of
\* _send_event reaches do_POST, every event is written at most once (one write
\* per event handed over, in order), and the events are those the request, the
\* search results, the chunks and the exception caught call for: no error
\* event and no other change comes from the failure.
C10_WriteFailureSwallowed ==
    WriteFailed =>
        /\ exc.at # "send_event"
        /\ pc # "crashed"
        /\ Len(writes) = Len(events)
        /\ \A i \in 1..Len(writes) : writes[i].event = events[i]
        /\ events = ExpectedEvents
        /\ (exc = NoException /\ ~NoMessageGiven) => Count(events, "error") = 0

C10_Witness ==
    /\ Finished /\ exc = NoException
    /\ Types(events) = <<"sources", "content", "content", "done">>
    /\ ~writes[2].ok

\* ------------------------------------------------------------------------
\* C11
\* ------------------------------------------------------------------------
Ops(calls) == [i \in 1..Len(calls) |-> calls[i].op]

\* The remote calls one search step can make: nothing, the embedding call
\* alone, or the embedding call and then the store query
StepCalls(query_op) == {<<>>, <<"embed">>, <<"embed", query_op>>}

\* The model call, and the failure of reading its stream
ModelCalls == {<<>>, <<"chat">>, <<"chat", "chat_stream">>}

\* C11: no remote call is retried.  The remote calls of a request are the calls
\* of the app search (at most one embedding call, then at most one store
\* query), those of the KB search (the same) and at most one model call; a
\* call that failed is the last call of its step.
C11_NoRetry ==
    /\ \E a \in StepCalls("search_app_content"), k \in StepCalls("search_similar_content"),
          m \in ModelCalls : Ops(RemoteCalls) = a \o k \o m
    /\ pc = "search_app" => RemoteCalls = <<>>
    /\ pc = "search_kb" => Ops(RemoteCalls) \in StepCalls("search_app_content")
    /\ Len(SelectSeq(RemoteCalls, LAMBDA c : c.op = "chat")) <= 1
    /\ \A i \in 1..Len(RemoteCalls) :
          ~RemoteCalls[i].ok =>
              \/ i = Len(RemoteCalls)
              \/ /\ RemoteCalls[i].op \in SearchOps
                 /\ RemoteCalls[i + 1].op \in {"embed", "chat"}

C11_Witness ==
    /\ Finished
    /\ Ops(RemoteCalls) = <<"embed", "embed", "search_similar_content", "chat">>
    /\ \A i \in {1, 3, 4} : ~RemoteCalls[i].ok
    /\ RemoteCalls[2].ok

\* ------------------------------------------------------------------------
\* C12
\* ------------------------------------------------------------------------

\* What the request at hand holds and has emitted follows from its own body
\* and the outcomes of its own remote calls
OwnOutcomesOnly ==
    /\ pc \notin {"entry", "parse", "search_app"} =>
           app_results = RowsReturned("search_app_content")
    /\ SearchesOver => kb_results = RowsReturned("search_similar_content")
    /\ Called("chat") =>
           messages = build_messages(build_context(app_results, kb_results).value,
                                     history, message).value
    /\ events = ExpectedEvents

\* C12: with two requests interleaved in any way, the events of each are
\* those its own body and its own remote outcomes call for, as for a request
\* handled alone; a step of one request changes neither the module constants
\* nor anything of the other request.
C12_RequestsIsolated ==
    /\ []OwnOutcomesOnly
    /\ [][/\ credentials' = credentials
          /\ other' = other \/ (other' = Frame /\ Frame' = other)]_vars

C12_Witness ==
    /\ pc = "stream" /\ Types(events) = <<"sources", "content">>
    /\ events[1].sources # <<>>
    /\ other.pc = "call_model" /\ other.events = <<SourcesEvent(<<>>)>>
    /\ other.history # history

\* ------------------------------------------------------------------------
\* C13
\* ------------------------------------------------------------------------
Formatted == result.done /\ args.fn = "format_sources"

\* The identifier a KB row is cited under
KbIdOf(row) == IF "chunk_id" \in row.has THEN row.chunk_id ELSE row.id

\* The place of a citation in the input: the app results in input order, then
\* the KB results in input order (0: it comes from no row)
Rank(c) ==
    LET apps == args.app_results
        kbs == args.kb_results
    IN  IF c.content_type # <<"article">> /\ \E i \in 1..Len(apps) : apps[i].id = c.id
        THEN CHOOSE i \in 1..Len(apps) : apps[i].id = c.id
        ELSE IF c.content_type = <<"article">> /\ \E j \in 1..Len(kbs) : KbIdOf(kbs[j]) = c.id
        THEN Len(apps) + (CHOOSE j \in 1..Len(kbs) : KbIdOf(kbs[j]) = c.id)
        ELSE 0

\* C13: format_sources returns at most 8 citations in order of non-increasing
\* similarity, and citations of equal similarity stand in their input order
\* (app results first, then KB results).
C13_SortedStable ==
    Formatted =>
        LET out == result.out.value
        IN  /\ ~result.out.raised
            /\ Len(out) <= 8
            /\ \A i, j \in 1..Len(out) :
                  i < j => /\ out[i].similarity.v >= out[j].similarity.v
                           /\ out[i].similarity.v = out[j].similarity.v =>
                                 Rank(out[i]) < Rank(out[j])

C13_Witness ==
    /\ Formatted
    /\ Len(args.app_results) > 8 /\ Len(args.kb_results) > 2
    /\ Len(result.out.value) = 8
    /\ \E i, j \in 1..8 :
          /\ i < j
          /\ result.out.value[i].similarity.v = result.out.value[j].similarity.v
          /\ result.out.value[i].content_type # <<"article">>
          /\ result.out.value[j].content_type = <<"article">>
    /\ \E i, j \in 1..8 :
          /\ i < j
          /\ result.out.value[i].similarity.v = result.out.value[j].similarity.v
          /\ result.out.value[j].content_type # <<"article">>

\* ------------------------------------------------------------------------
\* C14
\* ------------------------------------------------------------------------

\* The similarity a row is ranked with
SimOf(row) == IF "similarity" \in row.has THEN row.similarity ELSE 0

\* The rows format_sources may cite: the first 8 app results and the first 2
\* KB results, each with the identifier, the category and the similarity of
\* its citation and its place in the input
Candidates ==
    {[id |-> args.app_results[i].id,
      content_type |-> IF "content_type" \in args.app_results[i].has
                       THEN args.app_results[i].content_type ELSE <<>>,
      similarity |-> SimOf(args.app_results[i]),
      rank |-> i] : i \in 1..Min(8, Len(args.app_results))}
    \cup
    {[id |-> KbIdOf(args.kb_results[j]),
      content_type |-> <<"article">>,
      similarity |-> SimOf(args.kb_results[j]),
      rank |-> Len(args.app_results) + j] : j \in 1..Min(2, Len(args.kb_results))}

\* a stands before b in the stable sort by descending similarity
Before(a, b) ==
    \/ a.similarity > b.similarity
    \/ a.similarity = b.similarity /\ a.rank < b.rank

\* The projection of a citation that Candidates holds
Cited(c) == [id |-> c.id, content_type |-> c.content_type, similarity |-> c.similarity.v,
             rank |-> Rank(c)]

\* C14: the citations are the first 8 of the stable, similarity-descending
\* sort of the first 8 app results and the first 2 KB results: each citation
\* is one of these rows (a KB row as "article" under its chunk_id, or its id
\* when it has none; a row without similarity with similarity 0), no row is
\* cited twice, every such row left out stands behind all that are cited, and
\* rows behind the 8th app result or the 2nd KB result are never cited.
C14_FirstEightOfSort ==
    Formatted =>
        LET out == result.out.value
        IN  /\ ~result.out.raised
            /\ Len(out) = Min(8, Cardinality(Candidates))
            /\ \A x \in 1..Len(out) : Cited(out[x]) \in Candidates
            /\ \A x, y \in 1..Len(out) : x < y => Before(Cited(out[x]), Cited(out[y]))
            /\ \A c \in Candidates :
                  (\A x \in 1..Len(out) : Cited(out[x]) # c) =>
                      \A x \in 1..Len(out) : Before(Cited(out[x]), c)
            /\ \A i \in 1..Len(args.app_results) :
                  i > 8 => \A x \in 1..Len(out) : out[x].id # args.app_results[i].id
            /\ \A j \in 1..Len(args.kb_results) :
                  j > 2 => \A x \in 1..Len(out) : out[x].id # KbIdOf(args.kb_results[j])

C14_Witness ==
    /\ Formatted
    /\ Len(result.out.value) = 8
    /\ \E i \in 9..Len(args.app_results) :
          SimOf(args.app_results[i]) > result.out.value[3].similarity.v
    /\ Len(args.kb_results) = 3
    /\ SimOf(args.kb_results[3]) > result.out.value[2].similarity.v
    /\ \E x \in 1..8 : result.out.value[x].id = <<"chunk-1">>
    /\ \E x \in 1..8 : result.out.value[x].id = <<"kb-2">>
    /\ \E i \in 1..8 :
          /\ "similarity" \notin args.app_results[i].has
          /\ result.out.value[8].id = args.app_results[i].id
          /\ result.out.value[8].similarity.v = 0

\* ------------------------------------------------------------------------
\* C15
\* ------------------------------------------------------------------------
Built == result.done /\ args.fn = "build_context"

\* The row carries one of the categories build_context has a section for
Recognized(row) ==
    "content_type" \in row.has /\ row.content_type \in {<<"page">>, <<"component">>, <<"action">>}

\* C15 as claimed: build_context returns the sentinel exactly when app_results
\* and kb_results are both empty, and never the empty string.
C15_Original ==
    Built =>
        /\ result.out.value = NO_DOCS <=> (args.app_results = <<>> /\ args.kb_results = <<>>)
        /\ result.out.value # <<>>

\* C15 as amended: build_context returns the sentinel exactly when
\* kb_results is empty and no app result has the category page, component or
\* action (so also when both lists are empty), and never the empty string.
C15_SentinelIffNoSection ==
    Built =>
        /\ ~result.out.raised
        /\ result.out.value = NO_DOCS <=>
              /\ args.kb_results = <<>>
              /\ \A i \in 1..Len(args.app_results) : ~Recognized(args.app_results[i])
        /\ result.out.value # <<>>

C15_Witness ==
    /\ Built
    /\ args.app_results # <<>> /\ args.kb_results = <<>>
    /\ result.out.value = NO_DOCS

\* ------------------------------------------------------------------------
\* C16
\* ------------------------------------------------------------------------

\* The rows of app_results with the given category, in input order
RowsOf(category) ==
    SelectSeq(args.app_results,
              LAMBDA r : "content_type" \in r.has /\ r.content_type = <<category>>)

\* The title an entry shows for a KB row
KbTitleOf(row) == IF "title" \in row.has THEN row.title[1] ELSE "Help Article"

Headers == {ACTIONS_HEADER[1], COMPONENTS_HEADER[1], PAGES_HEADER[1], KB_HEADER[1]}

\* Every title of the input, of the rows of every category
Titles ==
    {args.app_results[i].title[1] : i \in 1..Len(args.app_results)}
    \cup {KbTitleOf(args.kb_results[j]) : j \in 1..Len(args.kb_results)}

\* The headers and titles of the context, in the order in which they stand
Marks == SelectSeq(result.out.value, LAMBDA t : t \in Headers \cup Titles)

\* A section: its header and the titles of its first entries, or nothing
Marked(header, titles, limit) ==
    IF titles = <<>> THEN <<>> ELSE <<header[1]>> \o SubSeq(titles, 1, Min(limit, Len(titles)))

\* C16: the context holds the sections Actions, Components, Pages, KB in this
\* order; a section is there exactly when a row of its category is; it lists
\* the first 20, 8, 5 and 2 rows of its category in input order, one entry
\* each; a row of another category shows nowhere, and nothing is raised.
C16_SectionsInOrder ==
    Built =>
        LET actions == RowsOf("action")
            components == RowsOf("component")
            pages == RowsOf("page")
            kbs == args.kb_results
        IN  /\ ~result.out.raised
            /\ Marks =
                  Marked(ACTIONS_HEADER, [i \in 1..Len(actions) |-> actions[i].title[1]], 20)
                  \o Marked(COMPONENTS_HEADER,
                            [i \in 1..Len(components) |-> components[i].title[1]], 8)
                  \o Marked(PAGES_HEADER, [i \in 1..Len(pages) |-> pages[i].title[1]], 5)
                  \o Marked(KB_HEADER, [j \in 1..Len(kbs) |-> KbTitleOf(kbs[j])], 2)
            /\ Len(SelectSeq(result.out.value, LAMBDA t : t \in {"* ", "* Page '"}))
                  = Len(SelectSeq(Marks, LAMBDA t : t \in Titles))

C16_Witness ==
    /\ Built
    /\ Len(RowsOf("page")) > 5 /\ Len(args.kb_results) > 2
    /\ RowsOf("action") # <<>> /\ RowsOf("component") # <<>>
    /\ \E i \in 1..Len(args.app_results) : ~Recognized(args.app_results[i])
    /\ Len(SelectSeq(Marks, LAMBDA t : t \in Headers)) = 4
    /\ Marks[Len(Marks)] = KbTitleOf(args.kb_results[2])

\* ------------------------------------------------------------------------
\* C17
\* ------------------------------------------------------------------------

\* d is a prefix of o
IsPrefix(d, o) == Len(d) <= Len(o) /\ \A j \in 1..Len(d) : d[j] = o[j]

\* The text of a field of the row, "" when it is null or missing
TextOf(row, key) == IF key \in row.has /\ key \notin row.null THEN row[key] ELSE <<>>

\* The places of the context where the description of an entry begins: behind
\* the line break of an app entry or the colon of a KB entry
DescriptionStarts ==
    {p \in 1..Len(result.out.value) : result.out.value[p] \in {"\n  ", ": "}}

\* The places of the separators between the parts of the context
Separators == {q \in 1..Len(result.out.value) : result.out.value[q] = "\n\n"}

\* The entry around place p reaches from EntryStart(p) to EntryEnd(p)
EntryStart(p) ==
    LET before == {q \in Separators : q < p}
    IN  IF before = {} THEN 1 ELSE (CHOOSE q \in before : \A r \in before : r <= q) + 1

EntryEnd(p) ==
    LET behind == {q \in Separators : q > p}
    IN  IF behind = {} THEN Len(result.out.value)
        ELSE (CHOOSE q \in behind : \A r \in behind : q <= r) - 1

\* The description shown by the entry whose description begins behind p
DescriptionAt(p) == SubSeq(result.out.value, p + 1, EntryEnd(p))

\* The title shown by that entry
TitleAt(p) ==
    LET shown == {result.out.value[q] : q \in EntryStart(p)..p} \cap Titles
    IN  CHOOSE t \in shown : TRUE

\* The original text and the limit of the entry: of the KB row or of the app
\* row with this title
OriginalAt(p) ==
    IF result.out.value[p] = ": "
    THEN LET j == CHOOSE j \in 1..Len(args.kb_results) : KbTitleOf(args.kb_results[j]) = TitleAt(p)
         IN  [text |-> TextOf(args.kb_results[j], "content"), limit |-> 400]
    ELSE LET i == CHOOSE i \in 1..Len(args.app_results) :
                      args.app_results[i].title[1] = TitleAt(p)
             row == args.app_results[i]
         IN  [text |-> TextOf(row, "description"),
              limit |-> CASE row.content_type = <<"action">> -> 400
                          [] row.content_type = <<"component">> -> 300
                          [] row.content_type = <<"page">> -> 200
                          [] OTHER -> 0]

\* The row a citation was made from
RowCited(c) ==
    IF Rank(c) <= Len(args.app_results) THEN args.app_results[Rank(c)]
    ELSE args.kb_results[Rank(c) - Len(args.app_results)]

\* C17: the description an entry of the context shows is a prefix of the
\* row's description (of "" when that is null or missing) of at most 400
\* characters for an action, 300 for a component, 200 for a page and 400 for
\* a KB snippet; the description of a citation is such a prefix of at most 150
\* characters.
C17_DescriptionsTruncated ==
    /\ Built =>
          /\ Cardinality(DescriptionStarts)
                = Len(SelectSeq(result.out.value, LAMBDA t : t \in {"* ", "* Page '"}))
          /\ \A p \in DescriptionStarts :
                /\ Len(DescriptionAt(p)) <= OriginalAt(p).limit
                /\ IsPrefix(DescriptionAt(p), OriginalAt(p).text)
    /\ Formatted =>
          \A x \in 1..Len(result.out.value) :
              LET c == result.out.value[x]
              IN  /\ Rank(c) > 0
                  /\ Len(c.description) <= 150
                  /\ IsPrefix(c.description,
                              TextOf(RowCited(c), IF c.content_type = <<"article">>
                                                  THEN "content" ELSE "description"))

C17_Witness ==
    /\ Built
    /\ \E p \in DescriptionStarts :
          /\ OriginalAt(p).limit = 200
          /\ Len(OriginalAt(p).text) = MaxDescLen
          /\ Len(DescriptionAt(p)) = 200
    /\ \E p \in DescriptionStarts :
          /\ result.out.value[p] = ": "
          /\ Len(OriginalAt(p).text) = MaxDescLen
          /\ Len(DescriptionAt(p)) = 400
    /\ \E i \in 1..5 :
          /\ "description" \in args.app_results[i].null
          /\ \E p \in DescriptionStarts :
                /\ TitleAt(p) = args.app_results[i].title[1]
                /\ DescriptionAt(p) = <<>>

\* ------------------------------------------------------------------------
\* C18
\* ------------------------------------------------------------------------

\* The places where the description of an action entry begins
ActionStarts ==
    {p \in DescriptionStarts : result.out.value[p] = "\n  " /\ OriginalAt(p).limit = 400}

\* The app result shown by the entry
RowAt(p) ==
    args.app_results[CHOOSE i \in 1..Len(args.app_results) :
                         args.app_results[i].title[1] = TitleAt(p)]

\* The value of a metadata key of the row, "" when the key or the metadata
\* mapping is missing
MetaText(row, key) ==
    IF "metadata" \in row.has /\ "metadata" \notin row.null /\ key \in row.metadata.has
    THEN row.metadata[key]
    ELSE <<>>

\* What the entry shows between its title and its description
Middle(p) ==
    LET q == CHOOSE q \in EntryStart(p)..p : result.out.value[q] = "' "
    IN  SubSeq(result.out.value, q + 1, p - 1)

\* C18: an action entry shows as location the page title of its metadata when
\* that is not empty and the URL otherwise, followed by "Opens: X" when
\* opens_component is set (whether or not navigates_to is), by "Navigates to:
\* Y" when only navigates_to is set, and by nothing when neither is set or the
\* row has no metadata.
C18_ActionEntry ==
    Built =>
        \A p \in ActionStarts :
            LET row == RowAt(p)
                page_title == MetaText(row, "page_title")
                opens == MetaText(row, "opens_component")
                navigates == MetaText(row, "navigates_to")
                shown == Middle(p)
                n == IF page_title # <<>> THEN 3 ELSE 2
                annotation == SubSeq(shown, n + 1, Len(shown))
            IN  /\ Len(shown) >= n
                /\ page_title # <<>> => SubSeq(shown, 1, n) = <<"on page '", page_title[1], "'">>
                /\ page_title = <<>> => SubSeq(shown, 1, n) = <<"at ", row.url_or_path[1]>>
                /\ opens # <<>> => annotation = <<" -> Opens: ", opens[1]>>
                /\ (opens = <<>> /\ navigates # <<>>) =>
                       annotation = <<" -> Navigates to: ", navigates[1]>>
                /\ (opens = <<>> /\ navigates = <<>>) => annotation = <<>>

C18_Witness ==
    /\ Built
    /\ \E p \in ActionStarts :
          /\ RowAt(p).id = <<"app-6">>
          /\ Middle(p) = <<"on page '", "page-6", "'", " -> Opens: ", "opens-6">>
    /\ \E p \in ActionStarts :
          /\ RowAt(p).id = <<"app-7">>
          /\ Middle(p) = <<"at ", "/app/7", " -> Navigates to: ", "goes-7">>
    /\ \E p \in ActionStarts :
          /\ "metadata" \notin RowAt(p).has
          /\ Middle(p) = <<"at ", "/app/8">>

\* ------------------------------------------------------------------------
\* C19
\* ------------------------------------------------------------------------

\* The message list has been built
Listed == args.fn = "build_messages" /\ result.done

\* The role a turn of the history is forwarded with
RoleOf(turn) == IF "role" \in turn.has THEN turn.role ELSE <<"user">>

\* C19: the message list is the fixed system prompt, a system message that
\* embeds the built context, the last min(N, 6) of the N turns of the history
\* in their order, and the current user message last; older turns are dropped
\* without an error.
C19_MessageList ==
    Listed =>
        LET turns == args.history.turns
            N == Len(turns)
            kept == IF N < 6 THEN N ELSE 6
            forwarded == result.out.value
        IN  /\ ~result.out.raised
            /\ Len(forwarded) = kept + 3
            /\ forwarded[1] = [role |-> <<"system">>, content |-> SYSTEM_PROMPT]
            /\ forwarded[2].role = <<"system">>
            /\ forwarded[2].content =
                   <<"Here's what I found in the AccuLynx documentation:\n\n">>
                   \o args.context
            /\ \A j \in 1..kept :
                  /\ forwarded[2 + j].content = turns[N - kept + j].content
                  /\ forwarded[2 + j].role = RoleOf(turns[N - kept + j])
            /\ forwarded[kept + 3] = [role |-> <<"user">>, content |-> args.message.s]

C19_Witness ==
    /\ Listed
    /\ Len(args.history.turns) = 8
    /\ ~result.out.raised
    /\ Len(result.out.value) = 9
    /\ result.out.value[3].content = <<"turn-3">>
    /\ result.out.value[3].role = <<"user">>
    /\ result.out.value[8].content = <<"turn-8">>

\* ------------------------------------------------------------------------
\* C20
\* ------------------------------------------------------------------------

\* generate_embedding has been called and has ended
Embedded == args.fn = "generate_embedding" /\ result.done

\* The text is a string of whitespace only, "" included
Blank(text) ==
    text.t = "str" /\ \A i \in 1..Len(text.s) : text.s[i] \in {" ", "\n", "\t"}

\* The remote embedding call was made and failed
RemoteFailed == \E i \in 1..Len(result.out.sent) : ~result.out.sent[i].ok

\* A value that is neither a string nor None and is not empty or zero
NonStringValue(text) ==
    \/ text.t = "list" /\ text.s # <<>>
    \/ text.t = "int" /\ text.s # <<"0">>

\* C20 as stated: absent without a remote call for empty or whitespace-only
\* text, absent when the remote call fails, and no exception ever reaches
\* the caller.
C20_Original ==
    Embedded =>
        /\ ~result.out.raised
        /\ Blank(args.message) => (result.out.value.none /\ result.out.sent = <<>>)
        /\ RemoteFailed => result.out.value.none

\* C20: generate_embedding returns absent without a remote call for empty or
\* whitespace-only text, returns absent when the remote call fails, and raises
\* to its caller only when the text is a non-empty value that is not a string,
\* in which case no remote call is made.
C20_AbsentNotRaised ==
    Embedded =>
        /\ result.out.raised <=> NonStringValue(args.message)
        /\ result.out.raised => result.out.sent = <<>>
        /\ Blank(args.message) => (result.out.value.none /\ result.out.sent = <<>>)
        /\ RemoteFailed => result.out.value.none

C20_Witness ==
    /\ Embedded
    /\ args.message = Str(<<" ", "h", "i", " ">>)
    /\ RemoteFailed
    /\ result.out.sent[1].input = <<"h", "i">>
    /\ result.out.value.none
    /\ ~result.out.raised

\* ------------------------------------------------------------------------
\* C21
\* ------------------------------------------------------------------------

\* A search has been called on its own and has ended
Searched == args.fn \in Searches /\ result.done

\* The embedding call was made and returned a vector
EmbeddingPresent ==
    \E i \in 1..Len(result.out.calls) :
        result.out.calls[i].op = "embed" /\ result.out.calls[i].ok

\* The content-store queries among the calls of the search
StoreQueries == {i \in 1..Len(result.out.calls) : result.out.calls[i].op # "embed"}

\* The store query failed, as it does when the client cannot be built, or
\* returned no rows
StoreGaveNothing ==
    \/ get_supabase_raises
    \/ \E i \in StoreQueries :
          ~result.out.calls[i].ok \/ result.out.calls[i].output = <<>>

\* C21 as stated: the searches never raise, return an empty sequence without
\* a store query when the embedding is absent, and return an empty sequence
\* when the store query or the client construction fails or gives no data.
C21_Original ==
    Searched =>
        /\ ~result.out.raised
        /\ ~EmbeddingPresent => (result.out.value = <<>> /\ StoreQueries = {})
        /\ StoreGaveNothing => result.out.value = <<>>

\* C21: the searches return an empty sequence without a store query when the
\* embedding is absent, return an empty sequence when the store query or the
\* client construction fails or gives no data, and never raise when the query
\* is a string; a non-empty query that is not a string makes them raise
\* before any remote call.
C21_SearchesDegrade ==
    Searched =>
        /\ result.out.raised => args.message.t # "str"
        /\ NonStringValue(args.message) => (result.out.raised /\ result.out.calls = <<>>)
        /\ ~EmbeddingPresent => (result.out.value = <<>> /\ StoreQueries = {})
        /\ StoreGaveNothing => result.out.value = <<>>

C21_Witness ==
    /\ Searched
    /\ args.fn = "search_kb_content"
    /\ args.message = Question
    /\ ~get_supabase_raises
    /\ args.store = StoreRows(<<PaymentsArticle>>)
    /\ Len(result.out.calls) = 1
    /\ ~EmbeddingPresent
    /\ ~result.out.raised
    /\ result.out.value = <<>>

\* ------------------------------------------------------------------------
\* C22
\* ------------------------------------------------------------------------

\* What the app search and the KB search give when they run one after the
\* other, as do_POST runs them
AppFirst ==
    search_app_content(message, args.embOk["search_app_content"],
                       args.store["search_app_content"])
KbSecond ==
    search_kb_content(message, args.embOk["search_kb_content"],
                      args.store["search_kb_content"])

\* The store queries were answered in this order
QueriedInOrder(first, second) ==
    \E i, j \in 1..Len(trace) :
        i < j /\ trace[i].op = first /\ trace[j].op = second

\* C22: whatever the order in which the two searches run and their remote
\* calls interleave, for the same outcomes of these calls the request has the
\* results, the sources event, the context and the events it has when the
\* app search runs before the KB search.
C22_SearchesCommute ==
    /\ (\A s \in Searches : result.at[s] = "end") =>
          /\ ~AppFirst.raised /\ ~KbSecond.raised
          /\ app_results = AppFirst.value
          /\ kb_results = KbSecond.value
    /\ exc.at \in Searches => (AppFirst.raised /\ exc.msg = AppFirst.msg)
    /\ \A i \in 1..Len(events) :
          events[i].type = "sources" =>
              events[i] = SourcesEvent(format_sources(AppFirst.value, KbSecond.value).value)
    /\ messages # <<>> =>
          messages[2].content =
              CONTEXT_INTRO \o build_context(AppFirst.value, KbSecond.value).value
    /\ events = ExpectedEvents

C22_Witness ==
    /\ QueriedInOrder("search_similar_content", "search_app_content")
    /\ Finished
    /\ app_results = <<TakePayment, JobPage>>
    /\ kb_results = <<PaymentsArticle>>
    /\ Types(events) = <<"sources", "content", "done">>

\* ------------------------------------------------------------------------
\* C23
\* ------------------------------------------------------------------------

\* A health check has answered
Answered == args.fn \in HealthChecks /\ result.done

\* The values credentials have in the environments
Secrets == {"secret", "hunter2"}

\* C23: the response of either health check is the same in two environments
\* in which the same variables are set, whatever their values, and no field
\* of it holds a credential value.
C23_PresenceOnly ==
    Answered =>
        /\ result.out = result.twin
        /\ \A f \in DOMAIN result.out.body : result.out.body[f] \notin Secrets

C23_Witness ==
    /\ Answered
    /\ args.fn = "health.do_GET"
    /\ args.env["SUPABASE_URL"] = "secret"
    /\ args.twin["SUPABASE_URL"] = "hunter2"
    /\ args.env["OPENAI_API_KEY"] = ""
    /\ result.out.body.SUPABASE_URL = "true"
    /\ result.out.body.SUPABASE_URL_source = "SUPABASE_URL"
    /\ result.out.body.OPENAI_API_KEY = "false"

\* ------------------------------------------------------------------------
\* C24
\* ------------------------------------------------------------------------

\* The causes of a failure before the sources event
Unparseable == exc.at \in {"content_length", "json"}
NonObject == exc.at = "body"
FormatFailed == exc.at = "format_sources"

\* The message is null, a number or a non-empty list: the slice of line 300
\* or the embedding of the query raises
NonStringMessage ==
    body_read /\ message.t # "str" /\ exc.at \in {"message", "search_app_content"}

\* The history is not a list, or one of its last six turns is not an object
BadHistory ==
    \/ history.t # "list"
    \/ \E i \in 1..Len(history.turns) :
          i > Len(history.turns) - 6 /\ ~history.turns[i].dict

\* The model refused the call
ModelRefused == \E i \in 1..Len(trace) : trace[i].op = "chat" /\ ~trace[i].ok

\* A failure behind the sources event and before any model output gives
\* sources, error, done
FailureBehindSources ==
    (Count(events, "sources") = 1 /\ (BadHistory \/ ModelRefused)) =>
        Types(events) = <<"sources", "error", "done">>

\* C24 as stated: the sources event is missing only after an unparseable or
\* non-object body, an empty message or an exception in format_sources.
C24_Original ==
    (StreamOpened /\ Finished) =>
        /\ Count(events, "sources") = 0 =>
              (Unparseable \/ NonObject \/ NoMessageGiven \/ FormatFailed)
        /\ (Unparseable \/ NonObject \/ NoMessageGiven \/ FormatFailed) =>
              Types(events) = <<"error", "done">>
        /\ FailureBehindSources

\* C24: when do_POST returns after opening the stream, the sources event is
\* missing only if the request failed before source formatting completed: an
\* unparseable or non-object body, an empty message, a message that is not a
\* string, or an exception in format_sources; the events are then error,
\* done. After a bad history value or a refused model call behind the sources
\* event they are sources, error, done.
C24_SourcesMissing ==
    (StreamOpened /\ Finished) =>
        /\ Count(events, "sources") = 0 =>
              (Unparseable \/ NonObject \/ NoMessageGiven \/ NonStringMessage \/ FormatFailed)
        /\ (Unparseable \/ NonObject \/ NoMessageGiven \/ NonStringMessage \/ FormatFailed) =>
              Types(events) = <<"error", "done">>
        /\ FailureBehindSources

C24_Witness ==
    /\ StreamOpened /\ Finished
    /\ FormatFailed
    /\ app_results = <<NullSimRow, JobPage>>
    /\ Types(events) = <<"error", "done">>

\* ------------------------------------------------------------------------
\* C25
\* ------------------------------------------------------------------------

\* The request read has a message of whitespace only
WhitespaceMessage == body_read /\ Blank(message) /\ message.s # <<>>

\* C25: a message of whitespace only passes the validation: no error event
\* comes from it (one can only come from the history or the model later on),
\* no embedding or store call is made, the sources event carries an empty
\* list, and the model is called with the sentinel context and the message,
\* whitespace as it is, as the user turn.
C25_WhitespaceMessage ==
    WhitespaceMessage =>
        /\ pc \notin {"no_message", "no_message_done"}
        /\ \A i \in 1..Len(events) :
              events[i].type = "error" =>
                  exc.at \in {"history", "model_call", "model_stream"}
        /\ \A i \in 1..Len(trace) :
              trace[i].op \notin {"embed", "search_app_content", "search_similar_content"}
        /\ pc \notin {"search_app", "search_kb", "sources"} =>
              (events # <<>> /\ events[1] = SourcesEvent(<<>>))
        /\ (Finished /\ ~BadHistory) => Called("chat")
        /\ Called("chat") =>
              /\ messages[2].content =
                     <<"Here's what I found in the AccuLynx documentation:\n\n",
                       "No relevant documentation found.">>
              /\ messages[Len(messages)] = [role |-> <<"user">>, content |-> message.s]

C25_Witness ==
    /\ WhitespaceMessage
    /\ Finished
    /\ Types(events) = <<"sources", "content", "done">>
    /\ events[1] = SourcesEvent(<<>>)
    /\ RemoteCalls = <<Call("chat", TRUE)>>
    /\ messages[3].content = <<" ", "\n">>

\* ------------------------------------------------------------------------
\* C26
\* ------------------------------------------------------------------------

\* The request read has a message with a character that is not whitespace
NonBlankMessage == body_read /\ message.t = "str" /\ ~Blank(message)

\* The embedding calls and the store queries of the request, in order
Embeddings == SelectSeq(trace, LAMBDA c : c.op = "embed")
Queries(op) == SelectSeq(trace, LAMBDA c : c.op = op)

\* The rows a store gave: those of its query when that was made and succeeded
RowsGiven(op) ==
    IF Queries(op) # <<>> /\ Queries(op)[1].ok THEN Queries(op)[1].output ELSE <<>>

\* C26: once both searches of a request with a non-blank message are over,
\* exactly two embedding calls have been made, the first for the app search
\* and the second for the KB search; each store is queried exactly when its
\* own embedding call succeeded, whatever became of the other one, and each
\* result list holds the rows its store gave, which are those of the sources
\* event and of the context.
C26_TwoEmbeddings ==
    (NonBlankMessage /\ SearchesOver) =>
        /\ Len(Embeddings) = 2
        /\ trace[1].op = "embed"
        /\ Len(Queries("search_app_content")) = (IF Embeddings[1].ok THEN 1 ELSE 0)
        /\ Len(Queries("search_similar_content")) = (IF Embeddings[2].ok THEN 1 ELSE 0)
        /\ Embeddings[1].ok => trace[2].op = "search_app_content"
        /\ \A i \in 1..Len(trace) :
              trace[i].op = "search_similar_content" => trace[i - 1].op = "embed"
        /\ app_results = RowsGiven("search_app_content")
        /\ kb_results = RowsGiven("search_similar_content")
        /\ SourcesStageDone =>
              events[1] = SourcesEvent(format_sources(RowsGiven("search_app_content"),
                                                      RowsGiven("search_similar_content")).value)
        /\ messages # <<>> =>
              messages[2].content =
                  CONTEXT_INTRO \o build_context(RowsGiven("search_app_content"),
                                                  RowsGiven("search_similar_content")).value

C26_Witness ==
    /\ NonBlankMessage /\ Finished
    /\ ~Embeddings[1].ok /\ Embeddings[2].ok
    /\ Queries("search_app_content") = <<>>
    /\ app_results = <<>>
    /\ kb_results = <<PaymentsArticle>>
    /\ Len(events[1].sources) = 1
    /\ messages # <<>>
    /\ messages[2].content # CONTEXT_INTRO \o NO_DOCS

\* ------------------------------------------------------------------------
\* C27
\* ------------------------------------------------------------------------

\* The chunks received whose delta holds text
ChunksWithText == {i \in 1..Len(chunks) : ~chunks[i].none /\ chunks[i].v # <<>>}

\* C27: at every moment, also after the stream has ended or failed, there
\* are as many content events as chunks with non-empty text were received,
\* and no content event carries an empty text.
C27_NoEmptyContent ==
    /\ \A i \in 1..Len(events) : events[i].type = "content" => events[i].text # <<>>
    /\ Count(events, "content") = Cardinality(ChunksWithText)

C27_Witness ==
    /\ Finished
    /\ exc.at = "model_stream"
    /\ Len(chunks) = 2
    /\ chunks[1] = None
    /\ chunks[2] = Some(<<" ", "b">>)
    /\ Types(events) = <<"sources", "content", "error", "done">>

\* ------------------------------------------------------------------------
\* C28
\* ------------------------------------------------------------------------

\* get_database_url has been called and has ended
Asked == args.fn = "get_database_url" /\ result.done

\* DATABASE_URL is set, or host, user and password all are
Configured ==
    \/ args.self.database_url # ""
    \/ /\ args.self.supabase_db_host # ""
       /\ args.self.supabase_db_user # ""
       /\ args.self.supabase_db_password # ""

\* C28: get_database_url raises only when the connection is not configured:
\* with DATABASE_URL set, or host, user and password all set, it returns a
\* connection string for direct = True as for direct = False, and a string it
\* builds from the components for direct = False names port 6543.
C28_RaisesOnlyUnconfigured ==
    Asked =>
        /\ Configured => (~result.out.raised /\ result.out.value # <<>>)
        /\ (~args.direct /\ ~result.out.raised /\ Len(result.out.value) > 1) =>
              result.out.value[8] = "6543"

\* ------------------------------------------------------------------------
\* C29
\* ------------------------------------------------------------------------

\* get_template_base_path has been called and has ended
Based == args.fn = "get_template_base_path" /\ result.done

\* C29: get_template_base_path raises for no path: it returns a template base
\* path and True whenever get_template_key yields a key, the generated keys
\* "generic:<path with :id>" included, and the path and False whenever
\* get_template_key yields none.
C29_AlwaysAPair ==
    Based =>
        /\ ~result.out.raised
        /\ Len(result.out.value) = 2
        /\ get_template_key(args.path).none => result.out.value = <<args.path, FALSE>>
        /\ ~get_template_key(args.path).none => result.out.value[2] = TRUE

\* ------------------------------------------------------------------------
\* C30
\* ------------------------------------------------------------------------

\* C30: create_client has been called at most once, and all callers that
\* have returned have got the same client.
C30_Singleton ==
    /\ created <= 1
    /\ \A t, u \in DOMAIN callers :
          (callers[t].pc = "done" /\ callers[u].pc = "done") =>
              callers[t].returned = callers[u].returned

====
